---- MODULE Spec2Model ----
(***************************************************************************)
(* A model of sanitize() from src/index.ts of jaktestowac/sanitize-data:   *)
(* the path parser, the rule resolver (findMostSpecificRule), the field    *)
(* generator resolver and the recursive walker, the walker unfolded into   *)
(* one step per visited key with an explicit call stack.                   *)
(*                                                                         *)
(* Strings that the program scans character by character (keys, paths,     *)
(* rule patterns) are sequences of one-character strings; primitive values *)
(* carry their String(v) form as a TLA+ string.                            *)
(***************************************************************************)
EXTENDS Integers, Sequences, FiniteSets, TLC

\* ------------------------------------------------------------------------
\* Bounds of the model
\* ------------------------------------------------------------------------

\* largest number of rules in a rule set
MaxRules == 2

\* number of nested walk() calls the host call stack holds before the
\* runtime raises RangeError (the real capacity is some thousands of frames)
StackLimit == 4

\* the longest path string handed to parsePath on its own
MaxPathLen == 5

\* ------------------------------------------------------------------------
\* Characters and strings
\* ------------------------------------------------------------------------

Digits == {"0", "1", "2", "3", "4", "5", "6", "7", "8", "9"}

\* /^\d+$/.test(s)
isDigits(s) == Len(s) > 0 /\ \A i \in 1..Len(s) : s[i] \in Digits

\* Array.prototype.join(".")
RECURSIVE joinDot(_)
joinDot(parts) ==
  IF Len(parts) = 0 THEN <<>>
  ELSE IF Len(parts) = 1 THEN parts[1]
  ELSE parts[1] \o <<".">> \o joinDot(Tail(parts))

\* parts.slice(0, -1)
dropLast(parts) == SubSeq(parts, 1, Len(parts) - 1)

\* the push without its test: parts.push(currentPart), as String.split does
pushIfAny_always(parts, currentPart) == Append(parts, currentPart)

\* if (currentPart) { parts.push(currentPart) }
pushIfAny(parts, currentPart) ==
  IF currentPart # <<>> THEN Append(parts, currentPart) ELSE parts

\* the scanning loop without the two bracket cases: only dots separate
RECURSIVE parseFrom_dotsOnly(_, _, _, _, _)
parseFrom_dotsOnly(path, i, parts, currentPart, inBrackets) ==
  IF i > Len(path) THEN pushIfAny(parts, currentPart)
  ELSE LET char == path[i] IN
    IF char = "." /\ ~inBrackets
      THEN parseFrom_dotsOnly(path, i + 1, pushIfAny(parts, currentPart), <<>>, FALSE)
    ELSE parseFrom_dotsOnly(path, i + 1, parts, Append(currentPart, char), inBrackets)

\* the scanning loop of parsePath, from character i on
RECURSIVE parseFrom(_, _, _, _, _)
parseFrom(path, i, parts, currentPart, inBrackets) ==
  IF i > Len(path) THEN pushIfAny(parts, currentPart)
  ELSE LET char == path[i] IN
    IF char = "." /\ ~inBrackets
      THEN parseFrom(path, i + 1, pushIfAny(parts, currentPart), <<>>, FALSE)
    ELSE IF char = "[" /\ ~inBrackets
      THEN parseFrom(path, i + 1, pushIfAny(parts, currentPart), <<>>, TRUE)
    ELSE IF char = "]" /\ inBrackets
      THEN parseFrom(path, i + 1, Append(parts, currentPart), <<>>, FALSE)
    ELSE parseFrom(path, i + 1, parts, Append(currentPart, char), inBrackets)

parsePath(path) == parseFrom(path, 1, <<>>, <<>>, FALSE)

\* ------------------------------------------------------------------------
\* Rule resolution
\* ------------------------------------------------------------------------

Modes == {"mask", "redact", "random", "preserve"}

\* the value of a lookup that found nothing
Undefined == "undefined"

WildOne == <<"*">>
WildAny == <<"*", "*">>

\* baseRulePath.every((segment, i) => parsedPath[i] === segment)
everySegment(baseRulePath, parsedPath) ==
  \A i \in 1..Len(baseRulePath) :
    i <= Len(parsedPath) /\ parsedPath[i] = baseRulePath[i]

\* number of "*" segments of a parsed rule
arrayWildcardsCount(ruleParsedPath) ==
  Cardinality({i \in 1..Len(ruleParsedPath) : ruleParsedPath[i] = WildOne})

\* the loop over the segments in the [*] branch: equal literals, and a
\* numeric concrete segment wherever the rule has "*"
indexWildcardMatch(ruleParsedPath, parsedPath) ==
  \A i \in 1..Len(ruleParsedPath) :
    IF ruleParsedPath[i] = WildOne THEN isDigits(parsedPath[i])
    ELSE ruleParsedPath[i] = parsedPath[i]

\* the "**" branch with the length test made strict: the base itself is
\* not matched
anyDepthBranch_strict(baseRulePath, parsedPath) ==
  IF everySegment(baseRulePath, parsedPath) /\ Len(parsedPath) > Len(baseRulePath)
    THEN Len(baseRulePath) * 100 + 1 ELSE -1

\* the "**" branch: the rule's base is the path or a prefix of it
anyDepthBranch(baseRulePath, parsedPath) ==
  IF everySegment(baseRulePath, parsedPath) /\ Len(parsedPath) >= Len(baseRulePath)
    THEN Len(baseRulePath) * 100 + 1 ELSE -1

\* the trailing "*" branch: the path is exactly one level under the base
oneLevelBranch(baseRulePath, parsedPath) ==
  IF everySegment(baseRulePath, parsedPath) /\ Len(parsedPath) = Len(baseRulePath) + 1
    THEN Len(baseRulePath) * 100 + 2 ELSE -1

\* the [*] branch: a "*" segment before the last one
indexWildcardBranch(ruleParsedPath, parsedPath) ==
  IF Len(ruleParsedPath) = Len(parsedPath)
       /\ indexWildcardMatch(ruleParsedPath, parsedPath)
    THEN Len(ruleParsedPath) * 100 + 5 - arrayWildcardsCount(ruleParsedPath)
    ELSE -1

\* the condition of the plain-key branch without the keyMatchAnyLevel test
isPlainKeyRule_always(ruleParsedPath, keyMatchAnyLevel) ==
  Len(ruleParsedPath) = 1

\* the condition of the plain-key branch
isPlainKeyRule(ruleParsedPath, keyMatchAnyLevel) ==
  Len(ruleParsedPath) = 1 /\ keyMatchAnyLevel

\* the plain-key branch: the last segment of the path is the key
plainKeyBranch(ruleParsedPath, parsedPath) ==
  IF Len(parsedPath) > 0 /\ parsedPath[Len(parsedPath)] = ruleParsedPath[1]
    THEN 1 ELSE -1

\* the last branch: segment by segment equality
literalBranch(ruleParsedPath, parsedPath) ==
  IF everySegment(ruleParsedPath, parsedPath)
    THEN Len(ruleParsedPath) * 100 + 10 ELSE -1

\* The specificity one rule key gets for a concrete path in the body of the
\* loop of findMostSpecificRule, -1 when the rule does not match.  The
\* branches are tried in the order of the if / else-if chain.
ruleSpecificity(ruleKey, parsedPath, keyMatchAnyLevel) ==
  LET ruleParsedPath == parsePath(ruleKey)
      n == Len(ruleParsedPath)
  IN
  IF n > 0 /\ ruleParsedPath[n] = WildAny
    THEN anyDepthBranch(dropLast(ruleParsedPath), parsedPath)
  ELSE IF n > 0 /\ ruleParsedPath[n] = WildOne
    THEN oneLevelBranch(dropLast(ruleParsedPath), parsedPath)
  ELSE IF \E i \in 1..n : ruleParsedPath[i] = WildOne
    THEN indexWildcardBranch(ruleParsedPath, parsedPath)
  ELSE IF isPlainKeyRule(ruleParsedPath, keyMatchAnyLevel)
    THEN plainKeyBranch(ruleParsedPath, parsedPath)
  ELSE IF Len(parsedPath) = n
    THEN literalBranch(ruleParsedPath, parsedPath)
  ELSE -1

\* bestMatch before any rule matched
NoMatch == [specificity |-> -1, mode |-> Undefined]

\* the update of bestMatch with >= in place of >: on equal scores the rule
\* listed last wins
updateBest_lastWins(bestMatch, specificity, mode) ==
  IF specificity < 0 THEN bestMatch
  ELSE IF bestMatch.mode = Undefined \/ specificity >= bestMatch.specificity
    THEN [specificity |-> specificity, mode |-> mode]
  ELSE bestMatch

\* if (!bestMatch || specificity > bestMatch.specificity) bestMatch = {...}
updateBest(bestMatch, specificity, mode) ==
  IF specificity < 0 THEN bestMatch
  ELSE IF bestMatch.mode = Undefined \/ specificity > bestMatch.specificity
    THEN [specificity |-> specificity, mode |-> mode]
  ELSE bestMatch

\* the exact test comparing the rule key with something that never equals
\* it, so that an exact rule is scored like any other
isExactRule_never(ruleKey, path) == FALSE

\* if (ruleKey === path): the rule is the path as written
isExactRule(ruleKey, path) == ruleKey = path

\* the loop of findMostSpecificRule from rule k on; rules is the sequence of
\* (key, mode) entries in Object.keys order
RECURSIVE resolveFrom(_, _, _, _, _, _)
resolveFrom(path, parsedPath, rules, keyMatchAnyLevel, k, bestMatch) ==
  IF k > Len(rules) THEN bestMatch.mode
  ELSE IF isExactRule(rules[k].key, path) THEN rules[k].mode
  ELSE resolveFrom(path, parsedPath, rules, keyMatchAnyLevel, k + 1,
         updateBest(bestMatch,
                    ruleSpecificity(rules[k].key, parsedPath, keyMatchAnyLevel),
                    rules[k].mode))

findMostSpecificRule(path, parsedPath, rules, keyMatchAnyLevel) ==
  resolveFrom(path, parsedPath, rules, keyMatchAnyLevel, 1, NoMatch)

\* match(i, j) of matchRule, the matcher with backtracking over "**" that
\* the module defines and sanitize() does not call (positions are 1-based)
RECURSIVE match(_, _, _, _)
match(ruleParts, pathParts, i, j) ==
  IF i > Len(ruleParts) THEN j = Len(pathParts) + 1
  ELSE IF ruleParts[i] = WildAny THEN
    IF i = Len(ruleParts) THEN TRUE
    ELSE \E skip \in 0..(Len(pathParts) + 1 - j) :
           match(ruleParts, pathParts, i + 1, j + skip)
  ELSE IF j <= Len(pathParts) /\ (ruleParts[i] = WildOne \/ ruleParts[i] = pathParts[j])
    THEN match(ruleParts, pathParts, i + 1, j + 1)
  ELSE FALSE

\* ------------------------------------------------------------------------
\* Field generator resolution
\* ------------------------------------------------------------------------

UpperCase == <<"A", "B", "C", "D", "E", "F", "G", "H", "I", "J", "K", "L", "M",
               "N", "O", "P", "Q", "R", "S", "T", "U", "V", "W", "X", "Y", "Z">>
LowerCase == <<"a", "b", "c", "d", "e", "f", "g", "h", "i", "j", "k", "l", "m",
               "n", "o", "p", "q", "r", "s", "t", "u", "v", "w", "x", "y", "z">>

lowerChar(c) ==
  IF \E i \in 1..26 : UpperCase[i] = c
    THEN LowerCase[CHOOSE i \in 1..26 : UpperCase[i] = c]
    ELSE c

\* String.prototype.toLowerCase()
toLowerCase(s) == [i \in 1..Len(s) |-> lowerChar(s[i])]

\* String.prototype.includes(sub)
includes(s, sub) ==
  \E i \in 1..(Len(s) - Len(sub) + 1) : SubSeq(s, i, i + Len(sub) - 1) = sub

\* String.prototype.startsWith(prefix)
startsWith(s, prefix) ==
  Len(s) >= Len(prefix) /\ SubSeq(s, 1, Len(prefix)) = prefix

\* Array.prototype.indexOf(x), 1-based, 0 when absent
indexOf(parts, x) ==
  IF \E i \in 1..Len(parts) : parts[i] = x
    THEN CHOOSE i \in 1..Len(parts) : parts[i] = x /\ \A j \in 1..(i - 1) : parts[j] # x
    ELSE 0

\* parts[i] of a JavaScript array: undefined beyond the end
at(parts, i) ==
  IF i >= 1 /\ i <= Len(parts) THEN [def |-> TRUE, s |-> parts[i]]
  ELSE [def |-> FALSE]

\* the comparison with === whatever the option says
compareFn_caseSensitive(caseInsensitive, a, b) ==
  IF a.def /\ b.def /\ a.s = b.s THEN "eq"
  ELSE IF ~a.def /\ ~b.def THEN "eq"
  ELSE "ne"

\* compareFn(a, b), a and b as given by at(): "eq", "ne", or "throw" for the
\* TypeError of undefined.toLowerCase() in the case-insensitive comparison
compareFn(caseInsensitive, a, b) ==
  IF caseInsensitive THEN
    IF ~a.def \/ ~b.def THEN "throw"
    ELSE IF toLowerCase(a.s) = toLowerCase(b.s) THEN "eq" ELSE "ne"
  ELSE IF a.def /\ b.def /\ a.s = b.s THEN "eq"
  ELSE IF ~a.def /\ ~b.def THEN "eq"
  ELSE "ne"

\* baseRulePath.every((segment, i) => compareFn(segment, parsedPath[i])),
\* left to right, stopping at the first false: "true", "false" or "throw"
RECURSIVE everyCompare(_, _, _, _)
everyCompare(caseInsensitive, segments, parsedPath, i) ==
  IF i > Len(segments) THEN "true"
  ELSE LET c == compareFn(caseInsensitive, at(segments, i), at(parsedPath, i)) IN
    IF c = "throw" THEN "throw"
    ELSE IF c = "ne" THEN "false"
    ELSE everyCompare(caseInsensitive, segments, parsedPath, i + 1)

\* pattern.replace(/\[\*\]/g, ".*")
RECURSIVE normalizePattern(_)
normalizePattern(pattern) ==
  IF Len(pattern) = 0 THEN <<>>
  ELSE IF startsWith(pattern, <<"[", "*", "]">>)
    THEN <<".", "*">> \o normalizePattern(SubSeq(pattern, 4, Len(pattern)))
  ELSE <<pattern[1]>> \o normalizePattern(Tail(pattern))

\* length of the run of digits of s that starts at position i
RECURSIVE digitRun(_, _)
digitRun(s, i) ==
  IF i <= Len(s) /\ s[i] \in Digits THEN 1 + digitRun(s, i + 1) ELSE 0

\* targetPath.replace(/\[(\d+)\]/g, ".$1")
RECURSIVE normalizeTarget(_)
normalizeTarget(target) ==
  IF Len(target) = 0 THEN <<>>
  ELSE LET d == digitRun(target, 2) IN
    IF target[1] = "[" /\ d > 0 /\ 2 + d <= Len(target) /\ target[2 + d] = "]"
      THEN <<".">> \o SubSeq(target, 2, 1 + d)
                   \o normalizeTarget(SubSeq(target, 3 + d, Len(target)))
    ELSE <<target[1]>> \o normalizeTarget(Tail(target))

\* new RegExp("^" + ... + "$", flag).test(target) for the expression built
\* from normalizedPattern: "." is an escaped dot, "*" is (\d+), every other
\* character stands for itself (the patterns of the model hold no other
\* character that is special in a regular expression)
RECURSIVE regexTest(_, _, _, _, _)
regexTest(normalizedPattern, i, target, j, caseInsensitive) ==
  IF i > Len(normalizedPattern) THEN j > Len(target)
  ELSE IF normalizedPattern[i] = "*" THEN
    \E k \in 1..digitRun(target, j) :
      regexTest(normalizedPattern, i + 1, target, j + k, caseInsensitive)
  ELSE
    /\ j <= Len(target)
    /\ IF caseInsensitive
         THEN lowerChar(normalizedPattern[i]) = lowerChar(target[j])
         ELSE normalizedPattern[i] = target[j]
    /\ regexTest(normalizedPattern, i + 1, target, j + 1, caseInsensitive)

\* the "*.something" branch without its root-level case: the target must be
\* longer than the suffix
suffixMatch_nestedOnly(caseInsensitive, suffix, targetParts) ==
  LET m == Len(suffix)
      n == Len(targetParts)
  IN n > m /\ \A i \in 1..m :
       compareFn(caseInsensitive, at(suffix, i), at(targetParts, n - m + i)) = "eq"

\* the two suffix comparisons of the "*.something" branch
suffixMatch(caseInsensitive, suffix, targetParts) ==
  LET m == Len(suffix)
      n == Len(targetParts)
  IN n >= m /\ \A i \in 1..m :
       compareFn(caseInsensitive, at(suffix, i), at(targetParts, n - m + i)) = "eq"

\* the loop over the segments before "**": "true", "false" or "throw"
RECURSIVE prefixBeforeAny(_, _, _, _, _)
prefixBeforeAny(caseInsensitive, patternParts, targetParts, i, index) ==
  IF i >= index THEN "true"
  ELSE IF patternParts[i] = WildOne
    THEN prefixBeforeAny(caseInsensitive, patternParts, targetParts, i + 1, index)
  ELSE LET t == IF i <= Len(targetParts) THEN at(targetParts, i)
                ELSE [def |-> TRUE, s |-> <<>>]
           c == compareFn(caseInsensitive, at(patternParts, i), t)
       IN IF c = "eq"
            THEN prefixBeforeAny(caseInsensitive, patternParts, targetParts, i + 1, index)
          ELSE "false"

\* the standard segment by segment comparison: "true", "false" or "throw"
RECURSIVE segmentLoop(_, _, _, _)
segmentLoop(caseInsensitive, patternParts, targetParts, i) ==
  IF i > Len(patternParts) THEN "true"
  ELSE IF patternParts[i] = WildOne
    THEN segmentLoop(caseInsensitive, patternParts, targetParts, i + 1)
  ELSE LET c == compareFn(caseInsensitive, at(patternParts, i), at(targetParts, i)) IN
    IF c = "throw" THEN "throw"
    ELSE IF c = "ne" THEN "false"
    ELSE segmentLoop(caseInsensitive, patternParts, targetParts, i + 1)

\* matchWildcardPattern(targetPath, pattern, caseInsensitive):
\* "true", "false" or "throw"
matchWildcardPattern(targetPath, pattern, caseInsensitive) ==
  IF includes(pattern, <<"[", "*", "]">>) THEN
    IF regexTest(normalizePattern(pattern), 1, normalizeTarget(targetPath), 1,
                 caseInsensitive)
      THEN "true" ELSE "false"
  ELSE
    LET targetParts == parsePath(targetPath)
        patternParts == parsePath(pattern)
    IN
    IF startsWith(pattern, <<"*", ".">>) /\ Len(patternParts) > 1 THEN
      IF suffixMatch(caseInsensitive, Tail(patternParts), targetParts)
        THEN "true" ELSE "false"
    ELSE IF ~includes(pattern, WildAny) /\ Len(patternParts) # Len(targetParts)
      THEN "false"
    ELSE IF indexOf(patternParts, WildAny) > 0 THEN
      LET index == indexOf(patternParts, WildAny)
          pre == prefixBeforeAny(caseInsensitive, patternParts, targetParts, 1, index)
      IN IF pre # "true" THEN pre
         ELSE IF index = Len(patternParts) THEN "true"
         ELSE "false"
    ELSE segmentLoop(caseInsensitive, patternParts, targetParts, 1)

\* results of the generator lookup: a generator (named by the key it is
\* registered under), undefined, or a TypeError thrown on the way
GenOf(genKey) == [kind |-> "gen", key |-> genKey]
GenNone == [kind |-> "none"]
GenThrow == [kind |-> "throw"]

\* randomFieldGeneratorsLower as built in sanitize(): an entry per distinct
\* lowercased key, at the position of its first insertion, holding the
\* generator of the last key that lowercases to it
RECURSIVE lowerTable(_, _, _)
lowerTable(gens, i, table) ==
  IF i > Len(gens) THEN table
  ELSE LET lk == toLowerCase(gens[i]) IN
    IF \E j \in 1..Len(table) : table[j].key = lk
      THEN lowerTable(gens, i + 1,
             [j \in 1..Len(table) |->
                IF table[j].key = lk THEN [key |-> lk, gen |-> gens[i]] ELSE table[j]])
      ELSE lowerTable(gens, i + 1, Append(table, [key |-> lk, gen |-> gens[i]]))

randomFieldGeneratorsLower(gens) == lowerTable(gens, 1, <<>>)

\* the table a loop of the resolver iterates: the registry itself, or its
\* lowercased mirror
plainTable(gens) == [i \in 1..Len(gens) |-> [key |-> gens[i], gen |-> gens[i]]]

\* table[key], Undefined when absent
lookup(table, key) ==
  IF \E j \in 1..Len(table) : table[j].key = key
    THEN GenOf(table[CHOOSE j \in 1..Len(table) : table[j].key = key].gen)
    ELSE GenNone

\* for (const genKey of ...) if (matchWildcardPattern(path, genKey, ci)) return
RECURSIVE wildcardLoop(_, _, _, _)
wildcardLoop(path, table, caseInsensitive, i) ==
  IF i > Len(table) THEN GenNone
  ELSE LET m == matchWildcardPattern(path, table[i].key, caseInsensitive) IN
    IF m = "throw" THEN GenThrow
    ELSE IF m = "true" THEN GenOf(table[i].gen)
    ELSE wildcardLoop(path, table, caseInsensitive, i + 1)

\* the [*] branch of the last loop of the resolver
RECURSIVE genIndexWildcard(_, _, _, _)
genIndexWildcard(caseInsensitive, genKeyParsed, parsedPath, i) ==
  IF i > Len(genKeyParsed) THEN "true"
  ELSE IF genKeyParsed[i] = WildOne THEN
    IF isDigits(parsedPath[i])
      THEN genIndexWildcard(caseInsensitive, genKeyParsed, parsedPath, i + 1)
      ELSE "false"
  ELSE LET c == compareFn(caseInsensitive, at(genKeyParsed, i), at(parsedPath, i)) IN
    IF c = "throw" THEN "throw"
    ELSE IF c = "ne" THEN "false"
    ELSE genIndexWildcard(caseInsensitive, genKeyParsed, parsedPath, i + 1)

\* the if / else-if chain after the plain-key test in the last loop:
\* "true" (return the generator), "false" (next key) or "throw"
genPatternMatch(genKeyParsed, parsedPath, caseInsensitive) ==
  LET n == Len(genKeyParsed)
      baseRulePath == dropLast(genKeyParsed)
  IN
  IF n > 0 /\ genKeyParsed[n] = WildAny THEN
    LET e == everyCompare(caseInsensitive, baseRulePath, parsedPath, 1) IN
      IF e = "throw" THEN "throw"
      ELSE IF e = "true" /\ Len(parsedPath) >= Len(baseRulePath) THEN "true"
      ELSE "false"
  ELSE IF n > 0 /\ genKeyParsed[n] = WildOne THEN
    LET e == everyCompare(caseInsensitive, baseRulePath, parsedPath, 1) IN
      IF e = "throw" THEN "throw"
      ELSE IF e = "true" /\ Len(parsedPath) = Len(baseRulePath) + 1 THEN "true"
      ELSE "false"
  ELSE IF \E i \in 1..n : genKeyParsed[i] = WildOne THEN
    IF n = Len(parsedPath)
      THEN genIndexWildcard(caseInsensitive, genKeyParsed, parsedPath, 1)
      ELSE "false"
  ELSE IF Len(parsedPath) = n THEN
    everyCompare(caseInsensitive, genKeyParsed, parsedPath, 1)
  ELSE "false"

\* the last loop of the resolver, from entry i of the table on
RECURSIVE segmentGenLoop(_, _, _, _, _)
segmentGenLoop(parsedPath, table, caseInsensitive, keyMatchAnyLevel, i) ==
  IF i > Len(table) THEN GenNone
  ELSE
    LET genKeyParsed == parsePath(table[i].key)
        plain == IF Len(genKeyParsed) = 1 /\ keyMatchAnyLevel
                   THEN compareFn(caseInsensitive,
                                  at(parsedPath, Len(parsedPath)), at(genKeyParsed, 1))
                   ELSE "ne"
    IN
    IF plain = "throw" THEN GenThrow
    ELSE IF plain = "eq" THEN GenOf(table[i].gen)
    ELSE LET m == genPatternMatch(genKeyParsed, parsedPath, caseInsensitive) IN
      IF m = "throw" THEN GenThrow
      ELSE IF m = "true" THEN GenOf(table[i].gen)
      ELSE segmentGenLoop(parsedPath, table, caseInsensitive, keyMatchAnyLevel, i + 1)

\* findMatchingRandomFieldGenerator(path, parsedPath) for the registry gens
\* (its keys in Object.keys order) and the two options it reads
findMatchingRandomFieldGenerator(path, parsedPath, gens, caseInsensitive, keyMatchAnyLevel) ==
  LET lower == randomFieldGeneratorsLower(gens)
      exact == lookup(plainTable(gens), path)
      exactLower == IF caseInsensitive THEN lookup(lower, toLowerCase(path))
                    ELSE GenNone
      first == wildcardLoop(path, plainTable(gens), caseInsensitive, 1)
      second == IF caseInsensitive
                  THEN wildcardLoop(toLowerCase(path), lower, TRUE, 1)
                  ELSE GenNone
  IN
  IF exact # GenNone THEN exact
  ELSE IF exactLower # GenNone THEN exactLower
  ELSE IF first # GenNone THEN first
  ELSE IF second # GenNone THEN second
  ELSE segmentGenLoop(parsedPath,
                      IF caseInsensitive THEN lower ELSE plainTable(gens),
                      caseInsensitive, keyMatchAnyLevel, 1)

\* ------------------------------------------------------------------------
\* Values and the value transformers
\* ------------------------------------------------------------------------

\* a primitive of typeof t whose String(v) is v
Prim(t, v) == [t |-> t, v |-> v]
Str(v) == Prim("string", v)

\* a reference to object or array number id of a heap
Ref(id) == [t |-> "ref", id |-> id]

\* value !== null && typeof value === "object"
isComposite(value) == value.t = "ref"

Min(a, b) == IF a < b THEN a ELSE b

\* "*".repeat(n)
RECURSIVE repeatStar(_)
repeatStar(n) == IF n <= 0 THEN "" ELSE "*" \o repeatStar(n - 1)

\* the cap of maskValue
MaskCap == 8

\* maskValue without the cap: one asterisk per character of String(value)
maskValue_uncapped(value) == Str(repeatStar(Len(value.v)))

maskValue(value) == Str(repeatStar(Min(MaskCap, Len(value.v))))

\* what a call of a registered field generator returns: the model keeps the
\* call itself, the generator (by its key) and its two arguments
FieldGenResult(genKey, value, path) ==
  [t |-> "fieldgen", key |-> genKey, arg |-> value, path |-> path]

\* the registered functions that return a constant, as name: () => "" and
\* age: () => 0 of the test suite do: here those under bio, zip and note
ConstantGenerators ==
  { [key |-> <<"b", "i", "o">>, returns |-> Prim("string", "")],
    [key |-> <<"z", "i", "p">>, returns |-> Prim("number", "0")],
    [key |-> <<"n", "o", "t", "e">>, returns |-> Prim("null", "null")] }

\* fieldGen(value, fullPath): what the function registered under genKey
\* returns when called with the two arguments
callGenerator(genKey, value, path) ==
  IF \E g \in ConstantGenerators : g.key = genKey
    THEN (CHOOSE g \in ConstantGenerators : g.key = genKey).returns
  ELSE FieldGenResult(genKey, value, path)

\* what a call of a registered type generator returns
TypeGenResult(kind) == [t |-> "typegen", kind |-> kind]

\* a value drawn from Math.random() by the built-in generator of a kind
BuiltinRandom(kind) == [t |-> kind, random |-> TRUE]

\* randomValue without its first block: the registered type generators are
\* not looked at
randomValue_builtinOnly(value, randomString, typeGens) ==
  IF value.t \in {"number", "string", "boolean"}
    THEN BuiltinRandom(value.t)
  ELSE Str(randomString)

\* randomValue(value, randomString, randomGenerators) for a primitive value;
\* typeGens is the set of kinds that randomGenerators has a function for
randomValue(value, randomString, typeGens) ==
  IF value.t \in {"number", "string", "boolean"} /\ value.t \in typeGens
    THEN TypeGenResult(value.t)
  ELSE IF value.t \in {"number", "string", "boolean"}
    THEN BuiltinRandom(value.t)
  ELSE Str(randomString)

\* ------------------------------------------------------------------------
\* State
\* ------------------------------------------------------------------------

VARIABLES
  input,   \* the caller's arguments: the value (a heap of objects and arrays
           \* by identity, and its root) and the options as passed
  opts,    \* the options after the defaults of sanitize() were applied
  pc,      \* "start", "walking", "done" or "threw"
  stack,   \* the active calls of walk(), innermost last
  out,     \* the containers allocated by walk(), by identity
  result,  \* the value sanitize() returned
  error,   \* the exception that left sanitize()
  last,    \* the key visited last: the key, the number of its ancestors, its
           \* path as joined and as parsed, its mode, its field generator, its
           \* value, what the switch did with it and the number of calls of
           \* field generators it made
  calls    \* the calls of field generators made so far, in order

vars == <<input, opts, pc, stack, out, result, error, last, calls>>

\* a destructuring default of sanitize(): "name = dflt" takes dflt where the
\* option is absent
orDefault(given, dflt) == IF given = Undefined THEN dflt ELSE given

\* the fallback with the mode fixed to preserve instead of the option
resolveMode_preserve(found, defaultMode) ==
  IF found = Undefined THEN "preserve" ELSE found

\* if (!mode) mode = defaultMode
resolveMode(found, defaultMode) ==
  IF found = Undefined THEN defaultMode ELSE found

\* one switch of the loop body of walk(): the value to assign to result[key],
\* or the recursive call walk(value, [...path, key])
Assign(v) == [kind |-> "assign", val |-> v]
Recurse == [kind |-> "recurse"]
\* or the call fieldGen(value, fullPath), whose result is assigned
Call(genKey, value, path) ==
  [kind |-> "call", key |-> genKey, arg |-> value, path |-> path]

\* the switch with redact applied to truthy values only:
\* result[key] = value ? redactString : value
walkStep_redactTruthy(mode, value, fieldGen, fullPath, heap, o) ==
  IF mode = "mask" THEN
    IF isComposite(value) THEN Recurse ELSE Assign(maskValue(value))
  ELSE IF mode = "redact" THEN
    IF value \in {Prim("string", ""), Prim("null", "null"),
                  Prim("undefined", "undefined")}
      THEN Assign(value)
    ELSE Assign(Str(o.redactString))
  ELSE IF mode = "random" THEN
    IF fieldGen.kind = "gen" THEN Call(fieldGen.key, value, fullPath)
    ELSE IF isComposite(value) THEN
      IF "object" \in o.typeGens /\ heap[value.id].kind # "array" THEN
        IF Len(o.gens) > 0 THEN Recurse ELSE Assign(TypeGenResult("object"))
      ELSE IF "array" \in o.typeGens /\ heap[value.id].kind = "array"
        THEN Assign(TypeGenResult("array"))
      ELSE Recurse
    ELSE Assign(randomValue(value, o.randomString, o.typeGens))
  ELSE IF isComposite(value) THEN Recurse ELSE Assign(value)

\* the switch with redact treated like mask: a container is recursed into
\* and its leaves are redacted one by one
walkStep_redactLeaves(mode, value, fieldGen, fullPath, heap, o) ==
  IF mode = "mask" THEN
    IF isComposite(value) THEN Recurse ELSE Assign(maskValue(value))
  ELSE IF mode = "redact" THEN
    IF isComposite(value) THEN Recurse ELSE Assign(Str(o.redactString))
  ELSE IF mode = "random" THEN
    IF fieldGen.kind = "gen" THEN Call(fieldGen.key, value, fullPath)
    ELSE IF isComposite(value) THEN
      IF "object" \in o.typeGens /\ heap[value.id].kind # "array" THEN
        IF Len(o.gens) > 0 THEN Recurse ELSE Assign(TypeGenResult("object"))
      ELSE IF "array" \in o.typeGens /\ heap[value.id].kind = "array"
        THEN Assign(TypeGenResult("array"))
      ELSE Recurse
    ELSE Assign(randomValue(value, o.randomString, o.typeGens))
  ELSE IF isComposite(value) THEN Recurse ELSE Assign(value)

\* the switch with mask applied to containers as to primitives: String(value)
\* of an object or array is masked
walkStep_maskContainers(mode, value, fieldGen, fullPath, heap, o) ==
  IF mode = "mask" THEN
    IF isComposite(value) THEN Assign(Str(repeatStar(MaskCap)))
    ELSE Assign(maskValue(value))
  ELSE IF mode = "redact" THEN Assign(Str(o.redactString))
  ELSE IF mode = "random" THEN
    IF fieldGen.kind = "gen" THEN Call(fieldGen.key, value, fullPath)
    ELSE IF isComposite(value) THEN
      IF "object" \in o.typeGens /\ heap[value.id].kind # "array" THEN
        IF Len(o.gens) > 0 THEN Recurse ELSE Assign(TypeGenResult("object"))
      ELSE IF "array" \in o.typeGens /\ heap[value.id].kind = "array"
        THEN Assign(TypeGenResult("array"))
      ELSE Recurse
    ELSE Assign(randomValue(value, o.randomString, o.typeGens))
  ELSE IF isComposite(value) THEN Recurse ELSE Assign(value)

\* the switch with a matching field generator applied before the mode is
\* looked at
walkStep_genAnyMode(mode, value, fieldGen, fullPath, heap, o) ==
  IF fieldGen.kind = "gen" THEN Call(fieldGen.key, value, fullPath)
  ELSE IF mode = "mask" THEN
    IF isComposite(value) THEN Recurse ELSE Assign(maskValue(value))
  ELSE IF mode = "redact" THEN Assign(Str(o.redactString))
  ELSE IF mode = "random" THEN
    IF fieldGen.kind = "gen" THEN Call(fieldGen.key, value, fullPath)
    ELSE IF isComposite(value) THEN
      IF "object" \in o.typeGens /\ heap[value.id].kind # "array" THEN
        IF Len(o.gens) > 0 THEN Recurse ELSE Assign(TypeGenResult("object"))
      ELSE IF "array" \in o.typeGens /\ heap[value.id].kind = "array"
        THEN Assign(TypeGenResult("array"))
      ELSE Recurse
    ELSE Assign(randomValue(value, o.randomString, o.typeGens))
  ELSE IF isComposite(value) THEN Recurse ELSE Assign(value)

walkStep(mode, value, fieldGen, fullPath, heap, o) ==
  IF mode = "mask" THEN
    IF isComposite(value) THEN Recurse ELSE Assign(maskValue(value))
  ELSE IF mode = "redact" THEN Assign(Str(o.redactString))
  ELSE IF mode = "random" THEN
    IF fieldGen.kind = "gen" THEN Call(fieldGen.key, value, fullPath)
    ELSE IF isComposite(value) THEN
      IF "object" \in o.typeGens /\ heap[value.id].kind # "array" THEN
        IF Len(o.gens) > 0 THEN Recurse ELSE Assign(TypeGenResult("object"))
      ELSE IF "array" \in o.typeGens /\ heap[value.id].kind = "array"
        THEN Assign(TypeGenResult("array"))
      ELSE Recurse
    ELSE Assign(randomValue(value, o.randomString, o.typeGens))
  ELSE IF isComposite(value) THEN Recurse ELSE Assign(value)

\* the assignment with a fallback for a generator that returned a falsy value:
\* result[key] = fieldGen(value, fullPath) || "[random]"
callResult_orFallback(c) ==
  LET r == callGenerator(c.key, c.arg, c.path) IN
  IF r \in {Prim("string", ""), Prim("number", "0"), Prim("null", "null")}
    THEN Str("[random]")
  ELSE r

\* result[key] = fieldGen(value, fullPath): the value assigned is the one the
\* function returned
callResult(c) == callGenerator(c.key, c.arg, c.path)

\* a container with one more key
setKey(node, key, v) ==
  [node EXCEPT !.keys = Append(@, key), !.vals = Append(@, v)]

\* the assignment made in place: obj[key] = v, in the caller's object
store_inPlace(heaps, f, key, v) ==
  [heaps EXCEPT !.input[f.obj].vals[f.i] = v]

\* result[key] = v in the call f of walk(): the caller's objects and the
\* allocated containers after the assignment
store(heaps, f, key, v) ==
  [heaps EXCEPT !.out[f.res] = setKey(@, key, v)]

\* the path kept as the segments the walker went through, a key with dots or
\* brackets being one segment
keyPath_segments(path, key) == Append(path, key)

\* parsePath([...path, key].join(".")): the path of a key is parsed again
\* from its joined form
keyPath(path, key) == parsePath(joinDot(Append(path, key)))

\* the allocation without the Array.isArray test: always {}
emptyLike_alwaysObject(node) == [kind |-> "object", keys |-> <<>>, vals |-> <<>>]

\* Array.isArray(obj) ? [] : {}
emptyLike(node) == [kind |-> node.kind, keys |-> <<>>, vals |-> <<>>]

\* the switch was not reached
NoStep == [kind |-> "none"]

NotVisited ==
  [visited |-> FALSE, key |-> <<>>, depth |-> 0, fullPath |-> <<>>,
   path |-> <<>>, parsedPath |-> <<>>, mode |-> Undefined, gen |-> GenNone,
   value |-> Prim("undefined", "undefined"), step |-> NoStep, called |-> 0]

\* sanitize(input, options) up to its call of walk(input): a root that is not
\* an object or array is returned as it is
Sanitize ==
  /\ pc = "start"
  /\ IF isComposite(input.root)
       THEN /\ pc' = "walking"
            /\ out' = <<emptyLike(input.heap[input.root.id])>>
            /\ stack' = <<[obj |-> input.root.id, path |-> <<>>, i |-> 1, res |-> 1]>>
            /\ UNCHANGED result
       ELSE /\ pc' = "done"
            /\ result' = input.root
            /\ UNCHANGED <<out, stack>>
  /\ UNCHANGED <<input, opts, error, last, calls>>

\* one iteration of "for (const key of Object.keys(obj))" in the innermost
\* call of walk()
VisitKey ==
  /\ pc = "walking"
  /\ LET f == stack[Len(stack)]
         node == input.heap[f.obj]
     IN
     /\ f.i <= Len(node.keys)
     /\ LET key == node.keys[f.i]
            value == node.vals[f.i]
            fullPath == joinDot(Append(f.path, key))
            parsedPath == keyPath(f.path, key)
            found == findMostSpecificRule(joinDot(parsedPath), parsedPath,
                                          opts.rules, opts.keyMatchAnyLevel)
            mode == resolveMode(found, opts.defaultMode)
            fieldGen == findMatchingRandomFieldGenerator(fullPath, parsedPath,
                          opts.gens, opts.caseInsensitive, opts.keyMatchAnyLevel)
            switch == walkStep(mode, value, fieldGen, fullPath, input.heap, opts)
            made == IF fieldGen # GenThrow /\ switch.kind = "call"
                      THEN <<switch>> ELSE <<>>
            step == IF switch.kind = "call" THEN Assign(callResult(switch))
                    ELSE switch
            heaps == [input |-> input.heap, out |-> out]
        IN
        /\ last' = [visited |-> TRUE, key |-> key, depth |-> Len(f.path),
                    fullPath |-> fullPath, path |-> joinDot(parsedPath),
                    parsedPath |-> parsedPath, mode |-> mode, gen |-> fieldGen,
                    value |-> value,
                    step |-> IF fieldGen = GenThrow THEN NoStep ELSE step,
                    called |-> Len(made)]
        /\ calls' = calls \o made
        /\ IF fieldGen = GenThrow THEN
             /\ pc' = "threw"
             /\ error' = "TypeError"
             /\ UNCHANGED <<input, stack, out>>
           ELSE IF step.kind = "assign" THEN
             /\ input' = [input EXCEPT !.heap = store(heaps, f, key, step.val).input]
             /\ out' = store(heaps, f, key, step.val).out
             /\ stack' = [stack EXCEPT ![Len(stack)].i = @ + 1]
             /\ UNCHANGED <<pc, error>>
           ELSE IF Len(stack) >= StackLimit THEN
             /\ pc' = "threw"
             /\ error' = "RangeError"
             /\ UNCHANGED <<input, stack, out>>
           ELSE
             /\ out' = Append(out, emptyLike(input.heap[value.id]))
             /\ stack' = Append(stack, [obj |-> value.id, path |-> Append(f.path, key),
                                        i |-> 1, res |-> Len(out) + 1])
             /\ UNCHANGED <<input, pc, error>>
  /\ UNCHANGED <<opts, result>>

\* "return result" of the innermost call of walk(): the caller assigns the
\* returned container to result[key], and sanitize() returns the outermost
Return ==
  /\ pc = "walking"
  /\ LET f == stack[Len(stack)]
         node == input.heap[f.obj]
     IN
     /\ f.i > Len(node.keys)
     /\ IF Len(stack) = 1
          THEN /\ pc' = "done"
               /\ result' = Ref(f.res)
               /\ stack' = <<>>
               /\ UNCHANGED <<input, out>>
          ELSE LET g == stack[Len(stack) - 1]
                   key == input.heap[g.obj].keys[g.i]
                   heaps == [input |-> input.heap, out |-> out]
               IN /\ input' = [input EXCEPT
                                 !.heap = store(heaps, g, key, Ref(f.res)).input]
                  /\ out' = store(heaps, g, key, Ref(f.res)).out
                  /\ stack' = [dropLast(stack) EXCEPT ![Len(stack) - 1].i = @ + 1]
                  /\ UNCHANGED <<pc, result>>
  /\ UNCHANGED <<opts, error, last, calls>>

Next == Sanitize \/ VisitKey \/ Return

\* ------------------------------------------------------------------------
\* Inputs of the model
\* ------------------------------------------------------------------------

kUser == <<"u", "s", "e", "r">>
kName == <<"n", "a", "m", "e">>
kMeta == <<"m", "e", "t", "a">>
kCity == <<"c", "i", "t", "y">>
kAdmin == <<"a", "d", "m", "i", "n">>
kData == <<"d", "a", "t", "a">>
kEmail == <<"e", "m", "a", "i", "l">>
kId == <<"i", "d">>
kUsers == <<"u", "s", "e", "r", "s">>
kProfile == <<"p", "r", "o", "f", "i", "l", "e">>
kSelf == <<"s", "e", "l", "f">>
kZip == <<"z", "i", "p">>
kActive == <<"a", "c", "t", "i", "v", "e">>
kNote == <<"n", "o", "t", "e">>
kNick == <<"n", "i", "c", "k">>
kBio == <<"b", "i", "o">>
kTags == <<"t", "a", "g", "s">>
kAddress == <<"a", "d", "d", "r", "e", "s", "s">>
kIndex0 == <<"0">>
kIndex1 == <<"1">>
kIndex2 == <<"2">>
BracketStar == <<"[", "*", "]">>

\* "**.name"
pAnyDepthName == joinDot(<<WildAny, kName>>)

pUserAny == joinDot(<<kUser, WildAny>>)
pUserOne == joinDot(<<kUser, WildOne>>)

\* registries of field generators for UserHeap: "**.name" alone, and
\* "user.**" with "user.*" in the two orders of registration
UserRegistries ==
  { <<pAnyDepthName>>, <<pUserAny, pUserOne>>, <<pUserOne, pUserAny>> }

Obj(keys, vals) == [kind |-> "object", keys |-> keys, vals |-> vals]
\* Object.keys of an array: its indices as strings
IndexKeys == <<kIndex0, kIndex1, kIndex2>>

Arr(vals) == [kind |-> "array", vals |-> vals,
              keys |-> [i \in 1..Len(vals) |-> IndexKeys[i]]]

Rule(key, mode) == [key |-> key, mode |-> mode]

\* { user: { name: "Bob", meta: { city: "LA" } }, admin: { name: "Al" },
\*   name: "root" }
UserHeap ==
  << Obj(<<kUser, kAdmin, kName>>, <<Ref(2), Ref(4), Str("root")>>),
     Obj(<<kName, kMeta>>, <<Str("Bob"), Ref(3)>>),
     Obj(<<kCity>>, <<Str("LA")>>),
     Obj(<<kName>>, <<Str("Al")>>) >>

UserRules ==
  { Rule(joinDot(<<kUser, WildAny>>), "redact"),
    Rule(joinDot(<<kUser, WildAny>>), "mask"),
    Rule(joinDot(<<kUser, WildOne>>), "mask"),
    Rule(joinDot(<<kUser, kName>>), "mask"),
    Rule(joinDot(<<kUser, kName>>), "preserve"),
    Rule(kName, "redact"),
    Rule(kName, "random"),
    Rule(joinDot(<<WildOne, kName>>), "redact"),
    Rule(joinDot(<<WildOne, kName>>), "random"),
    Rule(joinDot(<<WildAny, kName>>), "redact"),
    Rule(WildAny, "mask") }

\* { data: { user: { email: "user@ex.com", id: "123" },
\*           admin: { email: "admin@ex.com", id: "456" } } }
DataHeap ==
  << Obj(<<kData>>, <<Ref(2)>>),
     Obj(<<kUser, kAdmin>>, <<Ref(3), Ref(4)>>),
     Obj(<<kEmail, kId>>, <<Str("user@ex.com"), Str("123")>>),
     Obj(<<kEmail, kId>>, <<Str("admin@ex.com"), Str("456")>>) >>

DataRules ==
  { Rule(joinDot(<<kData, WildOne, kEmail>>), "mask"),
    Rule(joinDot(<<kData, kUser, WildOne>>), "redact"),
    Rule(joinDot(<<kData, WildAny>>), "random"),
    Rule(joinDot(<<kData, kUser, kEmail>>), "preserve"),
    Rule(kEmail, "redact") }

\* the rule set of the test "competing wildcard patterns with mixed
\* specificity"
CompetingRules ==
  << Rule(joinDot(<<kData, WildOne, kEmail>>), "mask"),
     Rule(joinDot(<<kData, kUser, WildOne>>), "redact"),
     Rule(joinDot(<<kData, WildAny>>), "random") >>

\* { users: [ { profile: { name: "Alice" } }, { name: "Bob" } ] }
UsersHeap ==
  << Obj(<<kUsers>>, <<Ref(2)>>),
     Arr(<<Ref(3), Ref(5)>>),
     Obj(<<kProfile>>, <<Ref(4)>>),
     Obj(<<kName>>, <<Str("Alice")>>),
     Obj(<<kName>>, <<Str("Bob")>>) >>

UsersRules ==
  { Rule(kUsers \o BracketStar \o <<".">> \o joinDot(<<WildOne, kName>>), "redact"),
    Rule(kUsers \o BracketStar \o <<".">> \o kName, "mask"),
    Rule(joinDot(<<kUsers, WildOne, kName>>), "random"),
    Rule(joinDot(<<kUsers, kIndex1>>), "redact"),
    Rule(kUsers \o <<"[", "1", "]">>, "mask") }

\* const a = { name: "test" }; a.self = a
CyclicHeap ==
  << Obj(<<kName, kSelf>>, <<Str("test"), Ref(1)>>) >>

CyclicRules == { Rule(kName, "mask"), Rule(kSelf, "redact"), Rule(kSelf, "mask") }

\* { users: ["Alice", "Bob", "Charlie"] }
ListHeap ==
  << Obj(<<kUsers>>, <<Ref(2)>>),
     Arr(<<Str("Alice"), Str("Bob"), Str("Charlie")>>) >>

pUsersBracket1 == kUsers \o <<"[", "1", "]">>
pUsersDot1 == joinDot(<<kUsers, kIndex1>>)

ListRules ==
  { Rule(pUsersBracket1, "redact"),
    Rule(pUsersBracket1, "random"),
    Rule(pUsersDot1, "mask"),
    Rule(pUsersDot1, "random"),
    Rule(joinDot(<<kUsers, WildOne>>), "mask") }

\* { name: "Bob", zip: 90001, active: true, note: null, nick: undefined,
\*   bio: "", email: "user@ex.com", tags: ["a"], address: { city: "LA" } }
ProfileHeap ==
  << Obj(<<kName, kZip, kActive, kNote, kNick, kBio, kEmail, kTags, kAddress>>,
         <<Str("Bob"), Prim("number", "90001"), Prim("boolean", "true"),
           Prim("null", "null"), Prim("undefined", "undefined"), Str(""),
           Str("user@ex.com"), Ref(2), Ref(3)>>),
     Arr(<<Str("a")>>),
     Obj(<<kCity>>, <<Str("LA")>>) >>

ProfileRules ==
  { Rule(kName, "mask"),
    Rule(kName, "random"),
    Rule(kZip, "preserve"),
    Rule(kAddress, "redact") }

\* the options of a call that passes none; the registry of type generators
\* and randomFieldGeneratorsCaseInsensitive are held with their defaults, {}
\* and false
NoOptions ==
  [defaultMode |-> Undefined, redactString |-> Undefined,
   randomString |-> Undefined, typeGens |-> {}, caseInsensitive |-> FALSE]

\* the option sets the walker is run with on ProfileHeap
ProfileOptions ==
  { NoOptions,
    [NoOptions EXCEPT !.defaultMode = "mask"],
    [NoOptions EXCEPT !.defaultMode = "redact", !.redactString = "XX"],
    [NoOptions EXCEPT !.defaultMode = "random"],
    [NoOptions EXCEPT !.defaultMode = "random", !.randomString = "??",
                      !.typeGens = {"string", "number"}],
    [NoOptions EXCEPT !.defaultMode = "random",
                      !.typeGens = {"boolean", "object", "array"}] }

\* a registry whose functions under bio, zip and note return "", 0 and null,
\* and whose others are registered for the two containers of ProfileHeap
ProfileRegistry == <<kBio, kZip, kNote, kAddress, kTags>>

kNameCap == <<"N", "a", "m", "e">>
kUserCap == <<"U", "s", "e", "r">>

\* { Name: "root", User: { Name: "Bob" } }
CaseHeap ==
  << Obj(<<kNameCap, kUserCap>>, <<Str("root"), Ref(2)>>),
     Obj(<<kNameCap>>, <<Str("Bob")>>) >>

\* registries in lower case for CaseHeap, and in the case of its keys
CaseRegistries ==
  { <<kName>>, <<joinDot(<<kUser, kName>>)>>, <<kNameCap>>,
    <<joinDot(<<kUserCap, kNameCap>>)>> }

CaseOptions ==
  { [NoOptions EXCEPT !.defaultMode = "random"],
    [NoOptions EXCEPT !.defaultMode = "random", !.caseInsensitive = TRUE] }

kScore == <<"s", "c", "o", "r", "e">>

\* { user: { meta: { score: 123 }, score: 456 }, score: 202 }
ScoreHeap ==
  << Obj(<<kUser, kScore>>, <<Ref(2), Prim("number", "202")>>),
     Obj(<<kMeta, kScore>>, <<Ref(3), Prim("number", "456")>>),
     Obj(<<kScore>>, <<Prim("number", "123")>>) >>

\* "*.score" and "*.meta.score"
pAnyParentScore == joinDot(<<WildOne, kScore>>)
pAnyParentMetaScore == joinDot(<<WildOne, kMeta, kScore>>)

kArr == <<"a", "r", "r">>
kObj == <<"o", "b", "j">>
kFoo == <<"f", "o", "o">>

\* { arr: [1, 2, 3], obj: { foo: "bar" } }
ArrHeap ==
  << Obj(<<kArr, kObj>>, <<Ref(2), Ref(3)>>),
     Arr(<<Prim("number", "1"), Prim("number", "2"), Prim("number", "3")>>),
     Obj(<<kFoo>>, <<Str("bar")>>) >>

ArrRules == { Rule(kArr, "random"), Rule(kObj, "random") }

\* the calls on ArrHeap: without type generators and with those for arrays
\* and objects
ArrOptions ==
  { NoOptions, [NoOptions EXCEPT !.typeGens = {"array", "object"}] }

k123 == <<"1", "2", "3">>
kKeyWithDots == joinDot(<<<<"k", "e", "y">>, <<"w", "i", "t", "h">>, <<"d", "o", "t", "s">>>>)
kEmpty == <<>>
kWeird == <<"[", "w", "e", "i", "r", "d", "]">>
kKey == <<"k", "e", "y">>
kWith == <<"w", "i", "t", "h">>
kDots == <<"d", "o", "t", "s">>

\* { 123: "numeric key", "key.with.dots": "value1", "[weird]": "bracket key",
\*   key: { with: { dots: "value1" } }, "": "empty key" }, the keys in the
\* order of Object.keys (an integer key comes first)
UnusualHeap ==
  << Obj(<<k123, kKeyWithDots, kWeird, kKey, kEmpty>>,
         <<Str("numeric key"), Str("value1"), Str("bracket key"), Ref(2),
           Str("empty key")>>),
     Obj(<<kWith>>, <<Ref(3)>>),
     Obj(<<kDots>>, <<Str("value1")>>) >>

\* the rules of the test "unusual key names", in the order of Object.keys
UnusualTestRules ==
  << Rule(k123, "mask"), Rule(kKeyWithDots, "redact"), Rule(kEmpty, "random"),
     Rule(kWeird, "redact") >>

UnusualRules ==
  { Rule(kKeyWithDots, "redact"),
    Rule(kEmpty, "random"),
    Rule(kWeird, "redact"),
    Rule(joinDot(<<kKey, WildAny>>), "mask"),
    Rule(kDots, "random") }

\* "user.name.**"
pUserNameAny == joinDot(<<kUser, kName, WildAny>>)

CaseInsensitive == [NoOptions EXCEPT !.caseInsensitive = TRUE]

\* UserHeap with another value under user:
\* { user: "alice", admin: { name: "Al" }, name: "root" }
FlatUserHeap ==
  << Obj(<<kUser, kAdmin, kName>>, <<Str("alice"), Ref(2), Str("root")>>),
     Obj(<<kName>>, <<Str("Al")>>) >>

FlatUserRules == { Rule(kUser, "redact"), Rule(kName, "mask") }

\* The inputs of the model: a heap and its root, the pool the rule sets are
\* drawn from, rule sets of the test suite that are added to them whatever
\* their size, the registries of field generators (by their keys), and the
\* other options
Scenarios ==
  { [heap |-> UserHeap, root |-> Ref(1), pool |-> UserRules,
     tests |-> {<<Rule(kUser, "redact")>>},
     gens |-> {<<>>, <<kName>>, <<joinDot(<<WildOne, kName>>)>>},
     options |-> {NoOptions}],
    [heap |-> UserHeap, root |-> Ref(1), pool |-> {Rule(kName, "random")},
     tests |-> {}, gens |-> UserRegistries, options |-> {NoOptions}],
    [heap |-> DataHeap, root |-> Ref(1), pool |-> DataRules,
     tests |-> {CompetingRules}, gens |-> {<<>>}, options |-> {NoOptions}],
    [heap |-> UsersHeap, root |-> Ref(1), pool |-> UsersRules, tests |-> {},
     gens |-> {<<>>}, options |-> {NoOptions}],
    [heap |-> CyclicHeap, root |-> Ref(1), pool |-> CyclicRules, tests |-> {},
     gens |-> {<<>>}, options |-> {NoOptions}],
    [heap |-> ListHeap, root |-> Ref(1), pool |-> ListRules, tests |-> {},
     gens |-> {<<>>, <<pUsersBracket1>>, <<pUsersDot1>>},
     options |-> {NoOptions}],
    [heap |-> ProfileHeap, root |-> Ref(1), pool |-> ProfileRules, tests |-> {},
     gens |-> {<<>>, <<kName>>}, options |-> ProfileOptions],
    [heap |-> ProfileHeap, root |-> Ref(1), pool |-> {Rule(kZip, "mask")},
     tests |-> {}, gens |-> {ProfileRegistry},
     options |-> {[NoOptions EXCEPT !.defaultMode = "random"],
                  [NoOptions EXCEPT !.defaultMode = "random",
                                    !.typeGens = {"object", "array"}]}],
    [heap |-> CaseHeap, root |-> Ref(1), pool |-> {Rule(kNameCap, "mask")},
     tests |-> {}, gens |-> CaseRegistries, options |-> CaseOptions],
    [heap |-> ScoreHeap, root |-> Ref(1), pool |-> {Rule(kScore, "random")},
     tests |-> {}, gens |-> {<<pAnyParentScore>>, <<pAnyParentMetaScore>>},
     options |-> {NoOptions, [NoOptions EXCEPT !.defaultMode = "random"]}],
    [heap |-> ArrHeap, root |-> Ref(1), pool |-> ArrRules, tests |-> {},
     gens |-> {<<>>, <<kName>>}, options |-> ArrOptions],
    [heap |-> UnusualHeap, root |-> Ref(1), pool |-> UnusualRules,
     tests |-> {UnusualTestRules}, gens |-> {<<>>, <<kName>>},
     options |-> {NoOptions, CaseInsensitive}],
    [heap |-> UserHeap, root |-> Ref(1), pool |-> {Rule(kUser, "redact")},
     tests |-> {}, gens |-> {<<pUserNameAny>>},
     options |-> {NoOptions, CaseInsensitive}],
    [heap |-> FlatUserHeap, root |-> Ref(1), pool |-> FlatUserRules,
     tests |-> {}, gens |-> {<<>>, <<kName>>},
     options |-> {NoOptions, [NoOptions EXCEPT !.defaultMode = "redact"]}],
    [heap |-> <<Obj(<<>>, <<>>)>>, root |-> Ref(1), pool |-> {}, tests |-> {},
     gens |-> {<<>>}, options |-> {NoOptions}],
    [heap |-> <<Arr(<<>>)>>, root |-> Ref(1), pool |-> {}, tests |-> {},
     gens |-> {<<>>}, options |-> {NoOptions}],
    [heap |-> <<>>, root |-> Prim("null", "null"), pool |-> {}, tests |-> {},
     gens |-> {<<>>}, options |-> {NoOptions}],
    [heap |-> <<>>, root |-> Prim("undefined", "undefined"), pool |-> {},
     tests |-> {}, gens |-> {<<>>}, options |-> {NoOptions}],
    [heap |-> <<>>, root |-> Str("plain"), pool |-> {Rule(kName, "mask")},
     tests |-> {}, gens |-> {<<>>}, options |-> {NoOptions}] }

\* the rule sets of at most n rules with distinct keys drawn from a pool, as
\* the sequence of their entries in Object.keys order (no key of the pools
\* is an integer index, so this is the insertion order)
RECURSIVE RuleSeqs(_, _)
RuleSeqs(pool, n) ==
  IF n = 0 THEN {<<>>}
  ELSE LET shorter == RuleSeqs(pool, n - 1) IN
    shorter \cup
    { Append(s, r) : s \in {t \in shorter : Len(t) = n - 1},
                     r \in pool }

NoResult == [t |-> "none"]
NoError == "none"

Init ==
  \E sc \in Scenarios :
    \E rules \in RuleSeqs(sc.pool, MaxRules) \cup sc.tests, gens \in sc.gens,
       keyMatchAnyLevel \in BOOLEAN, options \in sc.options :
      /\ \A i, j \in 1..Len(rules) : i # j => rules[i].key # rules[j].key
      /\ input = [heap |-> sc.heap, root |-> sc.root, options |-> options]
      /\ opts = [rules |-> rules,
                 defaultMode |-> orDefault(options.defaultMode, "preserve"),
                 redactString |-> orDefault(options.redactString, "[REDACTED]"),
                 randomString |-> orDefault(options.randomString, "[random]"),
                 typeGens |-> options.typeGens, gens |-> gens,
                 caseInsensitive |-> options.caseInsensitive,
                 keyMatchAnyLevel |-> keyMatchAnyLevel]
      /\ pc = "start"
      /\ stack = <<>>
      /\ out = <<>>
      /\ result = NoResult
      /\ error = NoError
      /\ last = NotVisited
      /\ calls = <<>>

Spec == Init /\ [][Next]_vars

\* parsePath on its own: the characters a path string is made of, one letter
\* standing for every character the loop does not test for
PathChars == {"a", ".", "[", "]"}

PathStrings == UNION { [1..n -> PathChars] : n \in 0..MaxPathLen }

ParseInit ==
  \E path \in PathStrings :
    /\ input = [path |-> path]
    /\ opts = <<>>
    /\ pc = "start"
    /\ stack = <<>>
    /\ out = <<>>
    /\ result = NoResult
    /\ error = NoError
    /\ last = NotVisited
    /\ calls = <<>>

\* a call parsePath(path) and its return
ParsePath ==
  /\ pc = "start"
  /\ pc' = "done"
  /\ result' = parsePath(input.path)
  /\ UNCHANGED <<input, opts, stack, out, error, last, calls>>

ParseSpec == ParseInit /\ [][ParsePath]_vars

\* ------------------------------------------------------------------------
\* Reading the output
\* ------------------------------------------------------------------------

JsUndefined == Prim("undefined", "undefined")

\* v[keys[1]][keys[2]]... in the output; a property of a string that is not
\* there reads as undefined
RECURSIVE getOut(_, _)
getOut(v, keys) ==
  IF Len(keys) = 0 THEN v
  ELSE IF v.t # "ref" THEN JsUndefined
  ELSE LET node == out[v.id] IN
    IF \E i \in 1..Len(node.keys) : node.keys[i] = keys[1]
      THEN getOut(node.vals[CHOOSE i \in 1..Len(node.keys) : node.keys[i] = keys[1]],
                  Tail(keys))
      ELSE JsUndefined

Redacted == Str(opts.redactString)

\* the input contains an object that holds itself
SelfContaining ==
  \E n \in 1..Len(input.heap) :
    \E i \in 1..Len(input.heap[n].vals) : input.heap[n].vals[i] = Ref(n)

\* ------------------------------------------------------------------------
\* C1 - cyclic input
\* ------------------------------------------------------------------------

\* C1: for an input object that contains itself (a = {...}; a.self = a) and
\* any rule set, sanitize returns without throwing, and the cycle is
\* reproduced by identity in the output (result.self === result, where the
\* mode at self leaves a container there).
C1_CyclicInputReturnsCycle ==
  SelfContaining =>
    /\ pc # "threw"
    /\ (pc = "done" /\ isComposite(getOut(result, <<kSelf>>)))
         => getOut(result, <<kSelf>>) = result

\* ------------------------------------------------------------------------
\* C2 - an exact rule wins
\* ------------------------------------------------------------------------

\* C2: whenever the rule set holds a rule whose key equals the dot-joined
\* path of the key being visited, the mode applied there is that rule's
\* mode, whatever other rules match and wherever they stand in the rule set.
C2_ExactRuleWins ==
  last.visited =>
    \A k \in 1..Len(opts.rules) :
      opts.rules[k].key = last.path => last.mode = opts.rules[k].mode

\* an exact rule was applied although a rule of another mode that matches
\* the path too, with a score of its own, is listed before it
C2_Witness ==
  /\ last.visited
  /\ \E k \in 1..Len(opts.rules) : \E j \in 1..(k - 1) :
       /\ opts.rules[k].key = last.path
       /\ ruleSpecificity(opts.rules[j].key, last.parsedPath,
                          opts.keyMatchAnyLevel) >= 0
       /\ opts.rules[j].mode # opts.rules[k].mode
       /\ last.mode = opts.rules[k].mode

\* ------------------------------------------------------------------------
\* C3 - "X.**" matches X itself
\* ------------------------------------------------------------------------

\* the parsed key of a rule ends in "**"
EndsInAny(ruleKey) ==
  LET p == parsePath(ruleKey) IN Len(p) > 0 /\ p[Len(p)] = WildAny

\* base is the path itself or one of its ancestors
AtOrUnder(base, parsedPath) ==
  Len(parsedPath) >= Len(base) /\ SubSeq(parsedPath, 1, Len(base)) = base

C4_AnyDepthKeepsContainer ==
  (pc = "done" /\ input.heap = UserHeap
     /\ opts.rules = <<Rule(joinDot(<<kUser, WildAny>>), "redact")>>)
    => /\ isComposite(getOut(result, <<kUser>>))
       /\ getOut(result, <<kUser, kName>>) = Redacted
       /\ getOut(result, <<kUser, kMeta>>) = Redacted
       /\ getOut(result, <<kAdmin, kName>>) = Str("Al")

\* ------------------------------------------------------------------------
\* C5 - "**" before the end of a pattern
\* ------------------------------------------------------------------------

\* the parsed key of a rule holds "**" before its last segment
AnyBeforeEnd(ruleKey) ==
  LET p == parsePath(ruleKey) IN \E i \in 1..(Len(p) - 1) : p[i] = WildAny

\* C5: a rule with "**" in a non-final position matches every path obtained
\* by letting "**" stand for zero or more segments (backtracking over every
\* split): where such a rule is the only rule, its mode is applied at every
\* visited path it matches in that sense, so "**.name" selects its mode for
\* every key called name at any depth.
C5_AnyDepthInside ==
  (last.visited /\ Len(opts.rules) = 1 /\ AnyBeforeEnd(opts.rules[1].key)
     /\ match(parsePath(opts.rules[1].key), last.parsedPath, 1, 1))
    => last.mode = opts.rules[1].mode

\* ------------------------------------------------------------------------
\* C6 - "*" matches one segment of any value
\* ------------------------------------------------------------------------

\* the parsed key of a rule holds "*" and no "**"
OnlyOneLevelWildcards(ruleKey) ==
  LET p == parsePath(ruleKey) IN
    /\ \E i \in 1..Len(p) : p[i] = WildOne
    /\ \A i \in 1..Len(p) : p[i] # WildAny

\* every "*" of the rule stands for exactly one segment of the path, of any
\* value, and the other segments are equal
OneSegmentEach(ruleParts, parsedPath) ==
  /\ Len(ruleParts) = Len(parsedPath)
  /\ \A i \in 1..Len(ruleParts) :
       ruleParts[i] = WildOne \/ ruleParts[i] = parsedPath[i]

\* C6: a one-level wildcard "*" at any position of a pattern (first, middle
\* or last, in dot or bracket form) matches exactly one concrete segment of
\* any value, property name or array index alike: where a rule with "*" is
\* the only rule, its mode is applied at exactly the visited paths that have
\* one segment for each "*" ("data.*.email" at data.user.email,
\* "users[*].*.name" at users.0.profile.name), never with "*" standing for
\* zero or two segments.
C6_OneLevelAnySegment ==
  (last.visited /\ Len(opts.rules) = 1 /\ OnlyOneLevelWildcards(opts.rules[1].key)
     /\ opts.rules[1].mode # opts.defaultMode)
    => (last.mode = opts.rules[1].mode
          <=> OneSegmentEach(parsePath(opts.rules[1].key), last.parsedPath))

\* ------------------------------------------------------------------------
\* C7 - "*.name" at the root
\* ------------------------------------------------------------------------

pAnyParentName == joinDot(<<WildOne, kName>>)

\* C7: a rule "*.name" matches a top-level key called name, a path with no
\* ancestor: with {"*.name": redact} the root-level name is replaced by the
\* redact string, and with {"*.name": random} and a field generator for
\* "*.name" the root-level name gets the generator's value.
C7_AnyParentMatchesRoot ==
  (pc = "done" /\ input.heap = UserHeap)
    => /\ opts.rules = <<Rule(pAnyParentName, "redact")>>
            => getOut(result, <<kName>>) = Redacted
       /\ (opts.rules = <<Rule(pAnyParentName, "random")>>
             /\ opts.gens = <<pAnyParentName>>)
            => getOut(result, <<kName>>) =
                 FieldGenResult(pAnyParentName, Str("root"), kName)

\* ------------------------------------------------------------------------
\* C8 - the most specific rule
\* ------------------------------------------------------------------------

\* C8: among the non-exact rules that match a path the one of the highest
\* specificity is applied, literal segments weighing more than "*" and "*"
\* more than "**": with {"data.*.email": mask, "data.user.*": redact,
\* "data.**": random} data.user.email and data.admin.email are masked,
\* data.user.id is redacted and data.admin.id gets a random value.
C8_MostSpecificWins ==
  (pc = "done" /\ input.heap = DataHeap /\ opts.rules = CompetingRules)
    => /\ getOut(result, <<kData, kUser, kEmail>>) = Str("********")
       /\ getOut(result, <<kData, kAdmin, kEmail>>) = Str("********")
       /\ getOut(result, <<kData, kUser, kId>>) = Redacted
       /\ getOut(result, <<kData, kAdmin, kId>>) = BuiltinRandom("string")

\* ------------------------------------------------------------------------
\* C9 - the order of the rules
\* ------------------------------------------------------------------------

\* the orders in which the entries of a rule set can be listed
Orders(rules) ==
  LET n == Len(rules)
      entries == {rules[i] : i \in 1..n}
  IN {t \in [1..n -> entries] : {t[i] : i \in 1..n} = entries}

\* the mode walk() applies at the visited path under a rule set
modeUnder(rules) ==
  LET found == findMostSpecificRule(last.path, last.parsedPath, rules,
                                    opts.keyMatchAnyLevel)
  IN resolveMode(found, opts.defaultMode)

\* the score of rule k of the rule set at the visited path
scoreOf(k) ==
  ruleSpecificity(opts.rules[k].key, last.parsedPath, opts.keyMatchAnyLevel)

\* the rules that match the visited path with the highest score
TopRules ==
  {k \in 1..Len(opts.rules) :
     scoreOf(k) >= 0 /\ \A j \in 1..Len(opts.rules) : scoreOf(j) <= scoreOf(k)}

HasExactRule == \E k \in 1..Len(opts.rules) : opts.rules[k].key = last.path

\* C9 as stated: the mode selected for a path does not depend on the order
\* in which the rules are listed; any two rule sets with the same entries
\* resolve every path to the same mode.
C9_OrderIrrelevant ==
  last.visited => \A t \in Orders(opts.rules) : modeUnder(t) = last.mode

\* C9 as amended: the mode selected for a path does not depend on the order
\* of the rules when the path has an exact rule or the matching rules that
\* share the highest specificity all have one mode; distinct matching
\* patterns can tie on specificity, and then the mode is that of the tied
\* rule that is listed first.
C9_OrderIrrelevantUnlessTie ==
  last.visited =>
    /\ (HasExactRule \/ \A j, k \in TopRules : opts.rules[j].mode = opts.rules[k].mode)
         => \A t \in Orders(opts.rules) : modeUnder(t) = last.mode
    /\ (~HasExactRule /\ TopRules # {})
         => \E k \in TopRules :
              /\ \A j \in TopRules : k <= j
              /\ last.mode = opts.rules[k].mode

\* two rules of different modes match the visited path with different
\* scores, the less specific one listed first, and the more specific one
\* was applied
C9_Witness ==
  /\ last.visited
  /\ ~HasExactRule
  /\ Len(opts.rules) = 2
  /\ scoreOf(1) >= 0
  /\ scoreOf(2) > scoreOf(1)
  /\ opts.rules[1].mode # opts.rules[2].mode
  /\ last.mode = opts.rules[2].mode

\* ------------------------------------------------------------------------
\* C10 - plain keys and keyMatchAnyLevel
\* ------------------------------------------------------------------------

\* a key or pattern that is one plain name
PlainName(s) ==
  LET p == parsePath(s) IN Len(p) = 1 /\ p[1] = s /\ s # WildOne /\ s # WildAny

\* rule k is the only rule of the rule set that matches the visited path
OnlyCandidate(k) ==
  \A j \in 1..Len(opts.rules) :
    j # k => (scoreOf(j) < 0 /\ opts.rules[j].key # last.path)

\* where keyMatchAnyLevel lets a plain name apply to the visited key: the
\* last segment of its path is the name, at the root when the option is false
PlainNameApplies(name) ==
  /\ Len(last.parsedPath) > 0
  /\ last.parsedPath[Len(last.parsedPath)] = name
  /\ (opts.keyMatchAnyLevel \/ Len(last.parsedPath) = 1)

\* C10: a rule whose key is a single plain name matches every key of that
\* name at any depth when keyMatchAnyLevel is true and only the key of that
\* name at the root when it is false; the same toggle governs a field
\* generator registered under a plain name (with false only the top-level
\* key gets the generator's value).
C10_PlainKeyAnyLevel ==
  /\ last.visited =>
       \A k \in 1..Len(opts.rules) :
         (PlainName(opts.rules[k].key) /\ OnlyCandidate(k)) =>
           last.mode = IF PlainNameApplies(opts.rules[k].key)
                         THEN opts.rules[k].mode ELSE opts.defaultMode
  /\ (last.visited /\ Len(opts.gens) = 1 /\ PlainName(opts.gens[1])
        /\ ~opts.caseInsensitive) =>
       last.gen = IF PlainNameApplies(opts.gens[1])
                    THEN GenOf(opts.gens[1]) ELSE GenNone
  /\ (pc = "done" /\ input.heap = UserHeap
        /\ opts.rules = <<Rule(kName, "random")>> /\ opts.gens = <<kName>>) =>
       /\ getOut(result, <<kName>>) = FieldGenResult(kName, Str("root"), kName)
       /\ getOut(result, <<kUser, kName>>) =
            IF opts.keyMatchAnyLevel
              THEN FieldGenResult(kName, Str("Bob"), joinDot(<<kUser, kName>>))
              ELSE Str("Bob")

\* with keyMatchAnyLevel false the rule {name: random} and the generator
\* registered under name were applied to the root-level name and not to
\* user.name
C10_Witness ==
  /\ pc = "done"
  /\ input.heap = UserHeap
  /\ ~opts.keyMatchAnyLevel
  /\ opts.rules = <<Rule(kName, "random")>>
  /\ opts.gens = <<kName>>
  /\ getOut(result, <<kName>>) = FieldGenResult(kName, Str("root"), kName)
  /\ getOut(result, <<kUser, kName>>) = Str("Bob")

\* ------------------------------------------------------------------------
\* C11 - bracket notation and dot notation
\* ------------------------------------------------------------------------

\* a pattern rewritten from bracket notation to dot notation: "[" becomes a
\* dot and "]" is dropped
RECURSIVE dotForm(_)
dotForm(s) ==
  IF Len(s) = 0 THEN <<>>
  ELSE IF s[1] = "[" THEN <<".">> \o dotForm(Tail(s))
  ELSE IF s[1] = "]" THEN dotForm(Tail(s))
  ELSE <<s[1]>> \o dotForm(Tail(s))

dotRules(rules) ==
  [k \in 1..Len(rules) |-> Rule(dotForm(rules[k].key), rules[k].mode)]

dotGens(gens) == [k \in 1..Len(gens) |-> dotForm(gens[k])]

DistinctKeys(rules) ==
  \A i, j \in 1..Len(rules) : i # j => rules[i].key # rules[j].key

\* the generator lookup at the visited path under a registry
genUnder(gens) ==
  findMatchingRandomFieldGenerator(last.fullPath, last.parsedPath, gens,
                                   opts.caseInsensitive, opts.keyMatchAnyLevel)

pA0B == <<"a", ".", "0", ".", "b">>
pA0BBracket == <<"a", "[", "0", "]", ".", "b">>

\* C11: dot notation and bracket notation of one position parse to the same
\* segments (parsePath("a.0.b") = parsePath("a[0].b"), and likewise every
\* rule and generator key and its dot form), so a rule set or a generator
\* registry written with brackets selects the same mode and finds a
\* generator at exactly the same visited paths as the one written with dots;
\* {users: [A, B, C]} with {"users[1]": redact} gives [A, redactString, C].
C11_BracketSameAsDot ==
  /\ parsePath(pA0BBracket) = parsePath(pA0B)
  /\ \A k \in 1..Len(opts.rules) :
       parsePath(dotForm(opts.rules[k].key)) = parsePath(opts.rules[k].key)
  /\ \A k \in 1..Len(opts.gens) :
       parsePath(dotForm(opts.gens[k])) = parsePath(opts.gens[k])
  /\ (last.visited /\ DistinctKeys(dotRules(opts.rules)))
       => modeUnder(dotRules(opts.rules)) = last.mode
  /\ last.visited => genUnder(dotGens(opts.gens)).kind = last.gen.kind
  /\ (pc = "done" /\ input.heap = ListHeap
        /\ opts.rules = <<Rule(pUsersBracket1, "redact")>>)
       => /\ getOut(result, <<kUsers, kIndex0>>) = Str("Alice")
          /\ getOut(result, <<kUsers, kIndex1>>) = Redacted
          /\ getOut(result, <<kUsers, kIndex2>>) = Str("Charlie")

\* the rule "users[1]" redacted the second element of users and left the
\* other two alone
C11_Witness ==
  /\ pc = "done"
  /\ input.heap = ListHeap
  /\ opts.rules = <<Rule(pUsersBracket1, "redact")>>
  /\ getOut(result, <<kUsers, kIndex1>>) = Redacted
  /\ getOut(result, <<kUsers, kIndex0>>) = Str("Alice")

\* ------------------------------------------------------------------------
\* C12 - redact
\* ------------------------------------------------------------------------

\* the mode walk() would apply at a path
modeAt(parsedPath) ==
  resolveMode(findMostSpecificRule(joinDot(parsedPath), parsedPath, opts.rules,
                                   opts.keyMatchAnyLevel),
              opts.defaultMode)

\* C12: where the mode resolved for a key is redact, the value assigned at
\* that key is the configured redact string ("[REDACTED]" when the option is
\* absent), whether the original value is a primitive, null, an array or an
\* object; the walker does not recurse into it, so no key under a redacted
\* key is ever visited and nothing of the original value is in the output
\* ({user: redact} turns the whole of user into one string).
C12_RedactReplacesWhole ==
  /\ opts.redactString =
       IF input.options.redactString = Undefined THEN "[REDACTED]"
       ELSE input.options.redactString
  /\ (last.visited /\ last.mode = "redact" /\ pc # "threw")
       => last.step = Assign(Str(opts.redactString))
  /\ last.visited =>
       \A n \in 1..(Len(last.parsedPath) - 1) :
         modeAt(SubSeq(last.parsedPath, 1, n)) # "redact"
  /\ (pc = "done" /\ input.heap = UserHeap /\ opts.rules = <<Rule(kUser, "redact")>>)
       => /\ getOut(result, <<kUser>>) = Redacted
          /\ getOut(result, <<kUser, kName>>) = JsUndefined
          /\ getOut(result, <<kUser, kMeta, kCity>>) = JsUndefined
  /\ (pc = "done" /\ input.heap = ProfileHeap /\ opts.rules = <<>>
        /\ opts.defaultMode = "redact")
       => \A i \in 1..Len(ProfileHeap[1].keys) :
            getOut(result, <<ProfileHeap[1].keys[i]>>) = Redacted

\* with a configured redact string a string, null, an array and an object
\* were each replaced by it
C12_Witness ==
  /\ pc = "done"
  /\ input.heap = ProfileHeap
  /\ input.options.redactString = "XX"
  /\ getOut(result, <<kName>>) = Str("XX")
  /\ getOut(result, <<kNote>>) = Str("XX")
  /\ getOut(result, <<kTags>>) = Str("XX")
  /\ getOut(result, <<kAddress>>) = Str("XX")

\* ------------------------------------------------------------------------
\* C13 - mask and containers
\* ------------------------------------------------------------------------

\* toEqual of an output value and an input value: the same primitive, or
\* containers of one kind with the same keys and deep-equal values
RECURSIVE deepEqual(_, _)
deepEqual(vout, vin) ==
  IF isComposite(vin) THEN
    /\ isComposite(vout)
    /\ LET a == out[vout.id]
           b == input.heap[vin.id]
       IN /\ a.kind = b.kind
          /\ a.keys = b.keys
          /\ \A i \in 1..Len(b.keys) : deepEqual(a.vals[i], b.vals[i])
  ELSE vout = vin

\* C13: where the mode resolved for a key is mask and the value is an object
\* or an array, the walker recurses into it and the output holds a container
\* of the same kind, never a run of asterisks; each child gets the mode
\* resolved for its own path, so {"user.*": mask} masks user.name and leaves
\* user.meta as it was.
C13_MaskKeepsContainers ==
  /\ (last.visited /\ last.mode = "mask" /\ isComposite(last.value))
       => last.step = Recurse
  /\ \A k \in 1..Len(stack) :
       out[stack[k].res].kind = input.heap[stack[k].obj].kind
  /\ (pc = "done" /\ input.heap = UserHeap
        /\ opts.rules = <<Rule(joinDot(<<kUser, WildOne>>), "mask")>>)
       => /\ getOut(result, <<kUser, kName>>) = Str("***")
          /\ deepEqual(getOut(result, <<kUser, kMeta>>), Ref(3))
          /\ getOut(result, <<kUser, kMeta, kCity>>) = Str("LA")

\* "user.*" masked user.name and user.meta came out as the object it was
C13_Witness ==
  /\ pc = "done"
  /\ input.heap = UserHeap
  /\ opts.rules = <<Rule(joinDot(<<kUser, WildOne>>), "mask")>>
  /\ getOut(result, <<kUser, kName>>) = Str("***")
  /\ isComposite(getOut(result, <<kUser, kMeta>>))
  /\ getOut(result, <<kUser, kMeta, kCity>>) = Str("LA")

\* ------------------------------------------------------------------------
\* C14 - the length of a mask
\* ------------------------------------------------------------------------

\* the non-empty strings of at most eight asterisks
StarRuns == {"*", "**", "***", "****", "*****", "******", "*******", "********"}

\* the visited key holds a primitive and was masked
MaskedPrimitive ==
  last.visited /\ last.mode = "mask" /\ ~isComposite(last.value) /\ pc # "threw"

\* what masking did to the values of ProfileHeap and to "LA"
MaskExamples ==
  (pc = "done" /\ input.heap = ProfileHeap /\ opts.rules = <<>>
     /\ opts.defaultMode = "mask")
    => /\ getOut(result, <<kName>>) = Str("***")
       /\ getOut(result, <<kAddress, kCity>>) = Str("**")
       /\ getOut(result, <<kZip>>) = Str("*****")
       /\ getOut(result, <<kEmail>>) = Str("********")
       /\ getOut(result, <<kNick>>) = Str("********")

NoRuleMatches ==
  \A k \in 1..Len(opts.rules) :
    scoreOf(k) < 0 /\ opts.rules[k].key # last.path

\* an output value is the input value with every primitive leaf masked and
\* every container kept, kind and keys
RECURSIVE maskedCopy(_, _)
maskedCopy(vout, vin) ==
  IF isComposite(vin) THEN
    /\ isComposite(vout)
    /\ LET a == out[vout.id]
           b == input.heap[vin.id]
       IN /\ a.kind = b.kind
          /\ a.keys = b.keys
          /\ \A i \in 1..Len(b.keys) : maskedCopy(a.vals[i], b.vals[i])
  ELSE /\ vout.t = "string"
       /\ Len(vout.v) = Min(8, Len(vin.v))
       /\ vout.v \in StarRuns \cup {""}

\* C15: at every key whose path no rule matches the mode applied is
\* defaultMode, which is preserve when the option is absent; with no rules
\* and defaultMode mask every primitive leaf at every depth, array elements
\* included, is masked and every container keeps its shape.
C15_DefaultMode ==
  /\ opts.defaultMode =
       IF input.options.defaultMode = Undefined THEN "preserve"
       ELSE input.options.defaultMode
  /\ (last.visited /\ NoRuleMatches) => last.mode = opts.defaultMode
  /\ (pc = "done" /\ opts.rules = <<>> /\ input.options.defaultMode = "mask")
       => maskedCopy(result, input.root)

\* with no rules and defaultMode mask the element of tags and the city of
\* address were masked inside their containers
C15_Witness ==
  /\ pc = "done"
  /\ input.heap = ProfileHeap
  /\ opts.rules = <<>>
  /\ input.options.defaultMode = "mask"
  /\ getOut(result, <<kTags, kIndex0>>) = Str("*")
  /\ getOut(result, <<kAddress, kCity>>) = Str("**")
  /\ out[result.id].keys = ProfileHeap[1].keys

\* ------------------------------------------------------------------------
\* C16 - preserve is the identity
\* ------------------------------------------------------------------------

\* every rule of the rule set has mode preserve (none, when it is empty)
OnlyPreserveRules ==
  \A k \in 1..Len(opts.rules) : opts.rules[k].mode = "preserve"

MaskNameKeepZip == <<Rule(kName, "mask"), Rule(kZip, "preserve")>>

C18_GeneratorsAlwaysApplied ==
  /\ (last.visited /\ last.gen.kind = "gen")
       => last.step = Assign(callGenerator(last.gen.key, last.value, last.fullPath))
  /\ (pc = "done" /\ input.heap = UserHeap /\ opts.rules = <<>>
        /\ opts.gens = <<pAnyDepthName>> /\ opts.defaultMode = "preserve")
       => /\ getOut(result, <<kName>>) =
               FieldGenResult(pAnyDepthName, Str("root"), kName)
          /\ getOut(result, <<kUser, kName>>) =
               FieldGenResult(pAnyDepthName, Str("Bob"), joinDot(<<kUser, kName>>))
          /\ getOut(result, <<kAdmin, kName>>) =
               FieldGenResult(pAnyDepthName, Str("Al"), joinDot(<<kAdmin, kName>>))

\* ------------------------------------------------------------------------
\* C19 - the precedence of the generators
\* ------------------------------------------------------------------------

\* the kinds of primitive the built-in generator has a case for
BuiltinKinds == {"number", "string", "boolean"}

\* C19: for a primitive value under mode random the substitute is, in this
\* order: the result of the matching field generator if there is one; else
\* the result of the type generator registered for the kind of the value;
\* else the built-in default, a random value of the same kind for a number,
\* a string or a boolean and the configured randomString for null,
\* undefined and every other kind.
C19_GeneratorPrecedence ==
  /\ opts.randomString =
       IF input.options.randomString = Undefined THEN "[random]"
       ELSE input.options.randomString
  /\ (last.visited /\ last.mode = "random" /\ ~isComposite(last.value)
        /\ pc # "threw")
       => /\ last.step.kind = "assign"
          /\ IF last.gen.kind = "gen"
               THEN last.step.val =
                      callGenerator(last.gen.key, last.value, last.fullPath)
             ELSE IF last.value.t \in BuiltinKinds /\ last.value.t \in opts.typeGens
               THEN last.step.val = TypeGenResult(last.value.t)
             ELSE IF last.value.t \in BuiltinKinds
               THEN last.step.val.t = last.value.t /\ last.step.val.random
             ELSE last.step.val = Str(opts.randomString)
  /\ (pc = "done" /\ input.heap = ProfileHeap /\ opts.rules = <<>>
        /\ opts.defaultMode = "random" /\ opts.typeGens = {"string", "number"}
        /\ opts.gens = <<kName>>)
       => /\ getOut(result, <<kName>>) = FieldGenResult(kName, Str("Bob"), kName)
          /\ getOut(result, <<kEmail>>) = TypeGenResult("string")
          /\ getOut(result, <<kZip>>) = TypeGenResult("number")
          /\ getOut(result, <<kActive>>) = BuiltinRandom("boolean")
          /\ getOut(result, <<kNote>>) = Str("??")
          /\ getOut(result, <<kNick>>) = Str("??")

\* with a field generator for name and type generators for strings and
\* numbers, name got the field generator's value, email the string
\* generator's, active a built-in boolean and null the random string
C19_Witness ==
  /\ pc = "done"
  /\ input.heap = ProfileHeap
  /\ opts.rules = <<>>
  /\ opts.defaultMode = "random"
  /\ opts.typeGens = {"string", "number"}
  /\ opts.gens = <<kName>>
  /\ getOut(result, <<kName>>) = FieldGenResult(kName, Str("Bob"), kName)
  /\ getOut(result, <<kEmail>>) = TypeGenResult("string")
  /\ getOut(result, <<kActive>>) = BuiltinRandom("boolean")
  /\ getOut(result, <<kNote>>) = Str("??")

\* ------------------------------------------------------------------------
\* C20 - the most specific field generator
\* ------------------------------------------------------------------------

\* no registered pattern is the visited path as written
NoExactGenerator ==
  \A k \in 1..Len(opts.gens) : opts.gens[k] # last.fullPath

\* C20: when several registered field-generator patterns match one path and
\* none of them equals the path, the generator of the most specific pattern
\* is used, whatever the order of registration: the lookup gives the same
\* generator for every order of the registry, and with "user.**" registered
\* before "user.*" and a random rule for name, user.name gets the value of
\* the generator of "user.*".
C20_MostSpecificGenerator ==
  /\ (last.visited /\ last.mode = "random" /\ NoExactGenerator)
       => \A t \in Orders(opts.gens) : genUnder(t) = last.gen
  /\ (pc = "done" /\ input.heap = UserHeap /\ opts.keyMatchAnyLevel
        /\ opts.rules = <<Rule(kName, "random")>>
        /\ opts.gens = <<pUserAny, pUserOne>>)
       => getOut(result, <<kUser, kName>>) =
            FieldGenResult(pUserOne, Str("Bob"), joinDot(<<kUser, kName>>))

\* ------------------------------------------------------------------------
\* C21
\* ------------------------------------------------------------------------

\* C21: a field generator resolved for a key whose mode is random is called
\* exactly once for that key, with the original value and the path of the key
\* joined with dots (an array index is a plain segment, "users.1"); what it
\* returns is assigned as it is, the walker does not recurse, whether the
\* original value is a container or not, and a falsy result ("", 0, null) is
\* kept
C21_GeneratorCall ==
  /\ (last.visited /\ pc # "threw" /\ last.mode = "random" /\ last.gen.kind = "gen")
       => /\ last.called = 1
          /\ calls[Len(calls)] = Call(last.gen.key, last.value, last.fullPath)
          /\ last.step =
               Assign(callGenerator(last.gen.key, last.value, last.fullPath))
  /\ (last.visited /\ ~(last.mode = "random" /\ last.gen.kind = "gen"))
       => last.called = 0
  /\ (pc = "done" /\ input.heap = ListHeap /\ opts.gens = <<pUsersBracket1>>
        /\ opts.rules = <<Rule(pUsersDot1, "random")>>)
       => /\ calls = <<Call(pUsersBracket1, Str("Bob"), pUsersDot1)>>
          /\ getOut(result, <<kUsers, kIndex1>>) =
               FieldGenResult(pUsersBracket1, Str("Bob"), pUsersDot1)
  /\ (pc = "done" /\ input.heap = ProfileHeap /\ opts.gens = ProfileRegistry
        /\ opts.rules = <<>>)
       => /\ calls = << Call(kZip, Prim("number", "90001"), kZip),
                        Call(kNote, Prim("null", "null"), kNote),
                        Call(kBio, Str(""), kBio),
                        Call(kTags, Ref(2), kTags),
                        Call(kAddress, Ref(3), kAddress) >>
          /\ getOut(result, <<kZip>>) = Prim("number", "0")
          /\ getOut(result, <<kNote>>) = Prim("null", "null")
          /\ getOut(result, <<kBio>>) = Str("")
          /\ getOut(result, <<kTags>>) = FieldGenResult(kTags, Ref(2), kTags)
          /\ getOut(result, <<kAddress>>) =
               FieldGenResult(kAddress, Ref(3), kAddress)
          /\ Len(out) = 1

C21_Witness ==
  /\ pc = "done"
  /\ input.heap = ProfileHeap
  /\ opts.gens = ProfileRegistry
  /\ opts.rules = <<>>
  /\ Len(calls) = 5
  /\ getOut(result, <<kZip>>) = Prim("number", "0")
  /\ getOut(result, <<kAddress>>) = FieldGenResult(kAddress, Ref(3), kAddress)

\* ------------------------------------------------------------------------
\* C22
\* ------------------------------------------------------------------------

lowerSegments(segments) ==
  [i \in 1..Len(segments) |-> toLowerCase(segments[i])]

\* the generator key, written without wildcards, names the parsed path:
\* segment by segment, or by its last segment for a plain key that may match
\* at any level
namesPath(genKey, parsedPath, keyMatchAnyLevel) ==
  LET g == parsePath(genKey) IN
  \/ g = parsedPath
  \/ /\ Len(g) = 1 /\ keyMatchAnyLevel /\ Len(parsedPath) > 0
     /\ parsedPath[Len(parsedPath)] = g[1]

\* C22: with randomFieldGeneratorsCaseInsensitive a generator registered under
\* a key or a dot path applies to every path that equals it up to the case of
\* the letters of each segment ("name" to Name and to User.Name, "user.name"
\* to User.Name); without the option, or with false, only to a path that
\* equals it exactly
C22_CaseInsensitive ==
  /\ (input.heap = CaseHeap /\ last.visited /\ pc # "threw")
       => LET genKey == opts.gens[1] IN
          /\ (last.gen.kind = "gen") <=>
               IF opts.caseInsensitive
                 THEN namesPath(toLowerCase(genKey), lowerSegments(last.parsedPath),
                                opts.keyMatchAnyLevel)
               ELSE namesPath(genKey, last.parsedPath, opts.keyMatchAnyLevel)
          /\ last.gen.kind = "gen" => last.gen.key = genKey
  /\ (input.heap = CaseHeap /\ pc = "done" /\ opts.rules = <<>>
        /\ opts.keyMatchAnyLevel)
       => /\ opts.gens = <<kName>> =>
               IF opts.caseInsensitive
                 THEN /\ getOut(result, <<kNameCap>>) =
                           FieldGenResult(kName, Str("root"), kNameCap)
                      /\ getOut(result, <<kUserCap, kNameCap>>) =
                           FieldGenResult(kName, Str("Bob"),
                                          joinDot(<<kUserCap, kNameCap>>))
               ELSE /\ getOut(result, <<kNameCap>>).t = "string"
                    /\ getOut(result, <<kUserCap, kNameCap>>).t = "string"
          /\ opts.gens = <<joinDot(<<kUser, kName>>)>> =>
               /\ getOut(result, <<kNameCap>>).t = "string"
               /\ IF opts.caseInsensitive
                    THEN getOut(result, <<kUserCap, kNameCap>>) =
                           FieldGenResult(joinDot(<<kUser, kName>>), Str("Bob"),
                                          joinDot(<<kUserCap, kNameCap>>))
                  ELSE getOut(result, <<kUserCap, kNameCap>>).t = "string"
  /\ (input.heap = CaseHeap => pc # "threw")

C22_Witness ==
  /\ pc = "done"
  /\ input.heap = CaseHeap
  /\ opts.caseInsensitive
  /\ opts.gens = <<kName>>
  /\ opts.rules = <<>>
  /\ Len(calls) = 2
  /\ getOut(result, <<kUserCap, kNameCap>>) =
       FieldGenResult(kName, Str("Bob"), joinDot(<<kUserCap, kNameCap>>))

\* ------------------------------------------------------------------------
\* C23
\* ------------------------------------------------------------------------

\* the last segments of the parsed path are the given ones
endsWith(parsedPath, suffix) ==
  /\ Len(parsedPath) >= Len(suffix)
  /\ SubSeq(parsedPath, Len(parsedPath) - Len(suffix) + 1, Len(parsedPath)) = suffix

C24_RandomArrayElements ==
  (/\ pc = "done"
   /\ input.heap = ArrHeap
   /\ \E i \in 1..Len(opts.rules) : opts.rules[i] = Rule(kArr, "random")
   /\ opts.gens = <<>>
   /\ "array" \notin opts.typeGens)
    => /\ isComposite(getOut(result, <<kArr>>))
       /\ out[getOut(result, <<kArr>>).id].kind = "array"
       /\ Len(out[getOut(result, <<kArr>>).id].vals) = 3
       /\ \A k \in {kIndex0, kIndex1, kIndex2} :
            getOut(result, <<kArr, k>>) = BuiltinRandom("number")

\* ------------------------------------------------------------------------
\* C25
\* ------------------------------------------------------------------------

\* C25: no step of sanitize() changes the caller's value (its objects and
\* arrays, their keys and their values) or the options (the rules, the type
\* generators, the field generators and the rest): every assignment goes to a
\* container that walk() allocated
C25_NoMutation ==
  [][input' = input /\ opts' = opts]_vars

\* a call that rebuilt the whole of ProfileHeap under mask has ended
C25_Witness ==
  /\ pc = "done"
  /\ input.heap = ProfileHeap
  /\ opts.defaultMode = "mask"
  /\ opts.rules = <<>>
  /\ Len(out) = 3
  /\ getOut(result, <<kName>>) = Str("***")
  /\ getOut(result, <<kAddress, kCity>>) = Str("**")
  /\ input.heap[1].vals[1] = Str("Bob")

\* ------------------------------------------------------------------------
\* C26
\* ------------------------------------------------------------------------

\* C26: on an input without a cycle (a key may be the empty string) and with
\* well-typed options (randomFieldGeneratorsCaseInsensitive may be true and a
\* generator pattern may be longer than the path visited) sanitize() returns
\* a value: no exception leaves it
C26_NeverThrows ==
  input.heap # CyclicHeap => pc # "threw"

\* ------------------------------------------------------------------------
\* C27
\* ------------------------------------------------------------------------

\* "array" or "object": the kind of the container the visited key holds
kindOfValue == input.heap[last.value.id].kind

\* C27: under random, with no field generator for the key and a container as
\* its value, an object and an array alike: when a type generator of the
\* container's kind is registered it replaces the container if no field
\* generator is registered at all, and is not used, the walker recursing, if
\* at least one field generator is registered
C27_CompositeTypeGenerator ==
  (/\ last.visited
   /\ pc # "threw"
   /\ last.mode = "random"
   /\ last.gen = GenNone
   /\ isComposite(last.value)
   /\ kindOfValue \in opts.typeGens)
    => last.step = IF Len(opts.gens) = 0
                     THEN Assign(TypeGenResult(kindOfValue))
                   ELSE Recurse

\* ------------------------------------------------------------------------
\* C28
\* ------------------------------------------------------------------------

\* C28 as stated: parsePath returns for every string, "" gives no segment,
\* and no segment it returns is the empty string: not for consecutive,
\* leading or trailing dots, and not for an empty bracket pair "[]"
C28_NoEmptySegment ==
  pc = "done"
    => /\ input.path = <<>> => result = <<>>
       /\ \A i \in 1..Len(result) : result[i] # <<>>

\* C28: parsePath returns for every string, "" gives no segment, and a dot
\* (consecutive, leading, trailing) never gives an empty segment; a "]" that
\* closes a bracket gives a segment whatever was scanned, so "[]" gives one
\* empty segment ("[]" parses to [""], "a[]" to ["a", ""]) and a string in
\* which no "[" is followed at once by "]" gives none
C28_EmptySegmentOnlyFromBrackets ==
  pc = "done"
    => /\ input.path = <<>> => result = <<>>
       /\ Len(result) <= Len(input.path)
       /\ ~includes(input.path, <<"[", "]">>)
            => \A i \in 1..Len(result) : result[i] # <<>>
       /\ input.path = <<"[", "]">> => result = << <<>> >>
       /\ input.path = <<"a", "[", "]">> => result = << <<"a">>, <<>> >>
       /\ input.path = <<".", "a", ".", ".", "a">> => result = << <<"a">>, <<"a">> >>
       /\ input.path = <<"a", ".", "[", "a", "]">> => result = << <<"a">>, <<"a">> >>

\* ".a[]." was parsed: the dots gave nothing, the bracket pair one empty
\* segment
C28_Witness ==
  /\ pc = "done"
  /\ input.path = <<".", "a", "[", "]", ".">>
  /\ result = << <<"a">>, <<>> >>

\* ------------------------------------------------------------------------
\* C29
\* ------------------------------------------------------------------------

\* C29: a rule key and the path of a visited key are compared after both were
\* split at dots and brackets, so the rule "key.with.dots" applies to the
\* root key named "key.with.dots" as it does to the key dots under key.with,
\* the rules "", "123" and "[weird]" apply to the root keys so named, and two
\* keys with the same path get the same mode (here the same output, the two
\* values being equal)
C29_UnusualKeys ==
  /\ (input.heap = UnusualHeap /\ pc = "done")
       => getOut(result, <<kKeyWithDots>>) = getOut(result, <<kKey, kWith, kDots>>)
  /\ (input.heap = UnusualHeap /\ last.visited /\ last.depth = 0)
       => \A k \in 1..Len(opts.rules) :
            opts.rules[k].key = last.key => last.mode = opts.rules[k].mode
  /\ (input.heap = UnusualHeap /\ last.visited
        /\ last.parsedPath = <<kKey, kWith, kDots>>)
       => last.mode =
            resolveMode(findMostSpecificRule(kKeyWithDots, <<kKey, kWith, kDots>>,
                                             opts.rules, opts.keyMatchAnyLevel),
                        opts.defaultMode)
  /\ (input.heap = UnusualHeap /\ pc = "done" /\ opts.rules = UnusualTestRules)
       => /\ getOut(result, <<k123>>) = Str("********")
          /\ getOut(result, <<kKeyWithDots>>) = Str("[REDACTED]")
          /\ getOut(result, <<kKey, kWith, kDots>>) = Str("[REDACTED]")
          /\ getOut(result, <<kWeird>>) = Str("[REDACTED]")
          /\ getOut(result, <<kEmpty>>) = BuiltinRandom("string")

C29_Witness ==
  /\ pc = "done"
  /\ input.heap = UnusualHeap
  /\ opts.rules = UnusualTestRules
  /\ getOut(result, <<kKeyWithDots>>) = Str("[REDACTED]")
  /\ getOut(result, <<kKey, kWith, kDots>>) = Str("[REDACTED]")
  /\ getOut(result, <<kEmpty>>) = BuiltinRandom("string")
  /\ getOut(result, <<kWeird>>) = Str("[REDACTED]")

\* ------------------------------------------------------------------------
\* C30
\* ------------------------------------------------------------------------

\* the mode of the key under the path walked to its container
modeOfKey(path, key) == modeAt(keyPath(path, key))

\* what stands for a value nobody may look at
Hidden == [t |-> "hidden"]

\* the caller's value from v on as a tree, the value at every key whose mode
\* is redact replaced by Hidden: two inputs that differ only at such keys
\* have the same tree
RECURSIVE blindTree(_, _)
blindTree(v, path) ==
  IF ~isComposite(v) THEN v
  ELSE LET node == input.heap[v.id] IN
    [t |-> "tree", kind |-> node.kind, keys |-> node.keys,
     vals |-> [i \in 1..Len(node.keys) |->
                IF modeOfKey(path, node.keys[i]) = "redact" THEN Hidden
                ELSE blindTree(node.vals[i], Append(path, node.keys[i]))]]

\* the output from v on as a tree
RECURSIVE outTree(_)
outTree(v) ==
  IF ~isComposite(v) THEN v
  ELSE LET node == out[v.id] IN
    [t |-> "tree", kind |-> node.kind, keys |-> node.keys,
     vals |-> [i \in 1..Len(node.keys) |-> outTree(node.vals[i])]]

\* the output a blinded tree determines when no mode is random: the redact
\* string at the hidden values, the mask of the other primitives under mask,
\* the rest as it is
RECURSIVE sanitizedTree(_, _)
sanitizedTree(b, path) ==
  IF b.t # "tree" THEN b
  ELSE
    [t |-> "tree", kind |-> b.kind, keys |-> b.keys,
     vals |-> [i \in 1..Len(b.keys) |->
                LET mode == modeOfKey(path, b.keys[i])
                    child == b.vals[i]
                IN IF child = Hidden THEN Str(opts.redactString)
                   ELSE IF child.t = "tree"
                     THEN sanitizedTree(child, Append(path, b.keys[i]))
                   ELSE IF mode = "mask" THEN maskValue(child)
                   ELSE child]]

\* no key can get the mode random
NoRandomMode ==
  /\ opts.defaultMode # "random"
  /\ \A k \in 1..Len(opts.rules) : opts.rules[k].mode # "random"

\* the tree both UserHeap and FlatUserHeap are blinded to when user is redacted
BlindUsers ==
  [t |-> "tree", kind |-> "object", keys |-> <<kUser, kAdmin, kName>>,
   vals |-> << Hidden,
               [t |-> "tree", kind |-> "object", keys |-> <<kName>>,
                vals |-> <<Str("Al")>>],
               Str("root") >>]

\* C30: redaction leaks nothing. When no key gets the mode random, the output
\* is determined by the input with the values at the redacted keys hidden, so
\* two inputs that differ only in the value at a redacted key (a string in
\* one, an object in the other) give the same output under the same options
C30_RedactionLeaksNothing ==
  /\ (pc = "done" /\ isComposite(input.root) /\ NoRandomMode)
       => outTree(result) = sanitizedTree(blindTree(input.root, <<>>), <<>>)
  /\ (pc = "done" /\ input.heap \in {UserHeap, FlatUserHeap}
        /\ opts.rules = <<Rule(kUser, "redact")>> /\ opts.defaultMode = "preserve")
       => /\ blindTree(input.root, <<>>) = BlindUsers
          /\ outTree(result) = sanitizedTree(BlindUsers, <<>>)
          /\ getOut(result, <<kUser>>) = Str("[REDACTED]")

C30_Witness ==
  /\ pc = "done"
  /\ input.heap = FlatUserHeap
  /\ opts.rules = <<Rule(kUser, "redact")>>
  /\ opts.defaultMode = "preserve"
  /\ outTree(result) = sanitizedTree(BlindUsers, <<>>)
  /\ getOut(result, <<kUser>>) = Str("[REDACTED]")
  /\ getOut(result, <<kAdmin, kName>>) = Str("Al")

====
